---- MODULE Spec2Model ----
(***************************************************************************)
(* Model of the browser extension of c0st1nus/Vier: the Page Agent         *)
(* (extension/content.js), the Connection Coordinator                      *)
(* (extension/background.js) and the Panel UI (extension/sidepanel.js).    *)
(* Each component is a single-threaded event loop: one action is one       *)
(* handler run from its start to its next await (or to its end).           *)
(***************************************************************************)
EXTENDS Integers, Sequences, FiniteSets, TLC

(***************************************************************************)
(* Bounds of the model.                                                    *)
(***************************************************************************)
MaxTime == 8
MaxSegs == 2
MaxTok == 2
NCalls == 1
MaxSockets == 2
MaxInFlight == 1
MaxBus == 1
MaxHandlers == 2
NTabs == 2
NQuiz == 2
MinEnd == 27
MaxEnd == 33
TicksBefore == 4
TicksAfter == 3
MaxOpts == 2
MaxNav == 1          \* yt-navigate-finish events of one tab

(***************************************************************************)
(* Program constants.                                                      *)
(***************************************************************************)
SHOW_EARLY_SECONDS == 3
HIDE_LATE_SECONDS == 3

NULL == "null"

\* no segment: the null / undefined a segment variable can hold
NoSegment == [id |-> -1, segment_id |-> -1, start_time |-> -1, end_time |-> -1]

Max(a, b) == IF a >= b THEN a ELSE b

(***************************************************************************)
(* Segments as the backend sends them.  An absent field is 0, which is     *)
(* falsy in `segment.id || segment.segment_id`.  The pool holds a segment  *)
(* keyed by id, one keyed by segment_id, one with no id at all, and one    *)
(* that repeats an id over another interval.                               *)
(***************************************************************************)
SegPool ==
  { [id |-> 1, segment_id |-> 0, start_time |-> 0, end_time |-> 3],
    [id |-> 0, segment_id |-> 2, start_time |-> 3, end_time |-> 6],
    [id |-> 0, segment_id |-> 0, start_time |-> 6, end_time |-> 8],
    [id |-> 1, segment_id |-> 0, start_time |-> 5, end_time |-> 8] }

SegIds == {1, 2}
Times == 0 .. MaxTime

VARIABLES
  videoBound,        \* content.js: timeupdate listener bound to videoEl
  segments,          \* content.js: let segments = []
  activeSegment,     \* content.js: let activeSegment = null
  overlayContainer,  \* content.js: overlayContainer !== null
  overlayVisible,    \* content.js: let overlayVisible = false
  paused,            \* the page's video element: videoEl.paused
  openedSegmentIds,  \* content.js: const openedSegmentIds = new Set()
  autoOpens,         \* history: per segment id, the auto-opens so far
  inits,             \* content.js: per tab, where init() stands in its bus
                     \* round trips, and the tab's currentTaskId
  quiz               \* content.js: per question of the overlay, its option
                     \* buttons (disabled, classes), its status text, the
                     \* answer in flight and, as history, the last reply

playerVars == << videoBound, segments, activeSegment, overlayContainer,
                 overlayVisible, paused, openedSegmentIds, autoOpens >>

pageVars == << playerVars, inits, quiz >>

VARIABLES
  accessToken,       \* background.js: state.accessToken (0 is null)
  refreshToken,      \* background.js: state.refreshToken (0 is null)
  user,              \* background.js: state.user
  call,              \* the apiFetch calls in flight, one record per slot
  logout,            \* background.js: where logout() stands and, as history,
                     \* whether auth:logout has completed since the last login
  ws,                \* background.js: state.ws, the socket it refers to
  wsTaskId,          \* background.js: state.wsTaskId
  orphans,           \* sockets the Coordinator called close() on and let
                     \* go of, per task, whose close event is still to come
  wsReconnectTimer,  \* background.js: state.wsReconnectTimer (its taskId)
  wsPingTimer,       \* background.js: state.wsPingTimer !== null
  probes,            \* per task, reconnect probes awaiting apiFetch
  linger,            \* per task, pending 5 s timers of "completed"
  segmentsByTask,    \* background.js: state.segmentsByTask
  currentTaskId,     \* background.js: state.currentTaskId
  persisting,        \* video:check / video:upload handlers at their
                     \* `await persistSessionState()`, per kind and task
  uploaded,          \* backend: the tasks it has created
  emitted,           \* the messages the latest step handed to the bus
                     \* (sendBroadcast, sendResponse), in order
  lastProbe          \* the reconnect probe the latest step ended: its task,
                     \* its result, and whether openWebSocket was then called

VARIABLES
  panel,             \* sidepanel.js: state (user, currentTaskId, segments,
                     \* statusPollInterval), the text of statusBadge, and
                     \* as history the task each listed segment came from
  panelPc,           \* sidepanel.js: where bootstrap() stands
  polls,             \* status requests of the poll timer awaiting a reply
  pollSegs,          \* video:segments requests of the poll timer awaiting one
  bus,               \* broadcasts on their way to the Panel's listener
  startup,           \* background.js: where autoReconnectOnStartup stands,
                     \* the task it probes and, as history, the probe's
                     \* result and whether the step opened a socket
  clock,             \* videoEl.currentTime at the latest tick of a
                     \* playback that advances second by second
  overlay,           \* content.js: the quiz:review requests of openOverlay
                     \* awaiting a reply, what renderOverlay rendered last
                     \* and, as history, the kind of the last reply
  failedTasks,       \* history: the tasks an error push event was received
                     \* for
  settings           \* backend endpoint, language and enabled flag: the
                     \* Panel's copy, the Coordinator's copy, the form, the
                     \* config:set in flight and, as history, its outcome

authVars == << accessToken, refreshToken, user, call, logout >>

connVars == << ws, wsTaskId, orphans, wsReconnectTimer, wsPingTimer >>

wsVars == << connVars, probes, linger, segmentsByTask >>

panelVars == << panel, panelPc, polls, pollSegs >>

videoVars == << currentTaskId, persisting, uploaded >>

otherVars == << settings, startup, clock, failedTasks, overlay >>

vars == << pageVars, authVars, wsVars, videoVars, panelVars, otherVars, bus,
           emitted, lastProbe >>

\* what the Page Agent's handlers leave alone
offPage == << inits, quiz, authVars, wsVars, videoVars, panelVars, otherVars >>
\* what the apiFetch calls leave alone
offAuth == << pageVars, wsVars, videoVars, panelVars, otherVars >>
\* what the push-connection handlers leave alone
offWs == << pageVars, authVars, videoVars, panelVars, otherVars >>

NoProbe == [taskId |-> "none", result |-> "none", reconnects |-> FALSE]

\* sendBroadcast, chrome.runtime.sendMessage: the message reaches the
\* extension pages that have a listener registered by then; a reply goes to
\* its requester alone
Broadcast(queue, msgs) ==
  IF panelPc = "ready"
  THEN queue \o SelectSeq([i \in 1 .. Len(msgs) |->
                            [msgs[i] EXCEPT !.cache = << >>]],
                         LAMBDA m : m.channel # "reply")
  ELSE queue

\* a step that hands msgs to the bus and ends no reconnect probe
Emit(msgs) ==
  /\ emitted' = msgs
  /\ lastProbe' = NoProbe
  /\ Len(Broadcast(bus, msgs)) <= MaxBus
  /\ bus' = Broadcast(bus, msgs)

\* a step that hands nothing to the bus
Quiet == Emit(<< >>)

Tasks == {"T1", "T2"}
NoTask == "none"
NoSocket == [taskId |-> NoTask, readyState |-> "NONE"]

\* sendBroadcast({ channel: "ws", type, taskId }) of onopen and onclose
WsStateMsg(type, t) ==
  [channel |-> "ws", type |-> type, taskId |-> t, payload |-> << >>,
   cache |-> << >>]

\* sendBroadcast({ channel: "ws", taskId, payload }) of handleWsEvent; cache
\* is history: state.segmentsByTask.get(taskId) as the call found it
WsEventMsg(t, payload, cache) ==
  [channel |-> "ws", type |-> NULL, taskId |-> t, payload |-> << payload >>,
   cache |-> cache]

\* sendResponse({ ok: true, data }) of the onMessage listener
Reply(type, t) ==
  [channel |-> "reply", type |-> type, taskId |-> t, payload |-> << >>,
   cache |-> << >>]

(***************************************************************************)
(* Page Agent (content.js)                                                 *)
(***************************************************************************)

\* segment.id || segment.segment_id
\* no quiz:review in flight, nothing rendered yet
NoOverlay ==
  [pending |-> << >>, rendered |-> [segment |-> 0, review |-> {}],
   reply |-> "none"]

SegKey(seg) == IF seg.id # 0 THEN seg.id ELSE seg.segment_id

\* findSegmentForTime: first segment whose [start_time, end_time] holds time
findSegmentForTime(segs, time) ==
  LET hits == { i \in 1 .. Len(segs) :
                  time >= segs[i].start_time /\ time <= segs[i].end_time }
  IN  IF hits = {} THEN NoSegment
      ELSE segs[CHOOSE i \in hits : \A j \in hits : i <= j]

\* a window that begins with the segment
windowStart_segmentStart(segment) == segment.start_time

\* maybeAutoOpenOverlay: const windowStart
windowStart(segment) ==
  Max(segment.start_time, segment.end_time - SHOW_EARLY_SECONDS)

\* maybeAutoOpenOverlay: TRUE when it reaches its call of openOverlay()
AutoOpenCalls(currentTime, segment, visible, opened) ==
  /\ segment # NoSegment
  /\ ~visible
  /\ SegKey(segment) # 0
  /\ SegKey(segment) \notin opened
  /\ currentTime >= windowStart(segment)
  /\ currentTime <= segment.end_time + HIDE_LATE_SECONDS

\* an openOverlay that refuses a segment whose id is in trigger memory
OpenOverlayActs_onceOnly(container, active, visible) ==
  /\ container
  /\ active # NoSegment
  /\ ~visible
  /\ SegKey(active) \notin openedSegmentIds

\* openOverlay: the guard of its first line
OpenOverlayActs(container, active, visible) ==
  container /\ active # NoSegment /\ ~visible

\* an openOverlay that leaves trigger memory as it was
OpenedAfterOpen_noAdd(opened, active) == opened

\* openOverlay: the trigger memory after it has shown the overlay
OpenedAfterOpen(opened, active) ==
  IF SegKey(active) # 0 THEN opened \cup {SegKey(active)} ELSE opened

\* openOverlay: `if (videoEl) videoEl.pause()`; the listeners are bound
\* (videoBound) to a video element only
PausedAfterOpen(bound, wasPaused) == IF bound THEN TRUE ELSE wasPaused

\* onTimeUpdate, past the throttle, with videoEl.currentTime = t
onTimeUpdate(t) ==
  /\ videoBound
  /\ LET seg == findSegmentForTime(segments, t)
         calls == AutoOpenCalls(t, seg, overlayVisible, openedSegmentIds)
         acts == calls /\ OpenOverlayActs(overlayContainer, seg, overlayVisible)
     IN  /\ activeSegment' = seg
         /\ overlayVisible' = (overlayVisible \/ acts)
         /\ paused' = IF acts THEN PausedAfterOpen(videoBound, paused)
                       ELSE paused
         /\ openedSegmentIds' =
              IF acts THEN OpenedAfterOpen(openedSegmentIds, seg)
              ELSE openedSegmentIds
         /\ autoOpens' =
              IF acts
              THEN [autoOpens EXCEPT ![SegKey(seg)] = @ + 1]
              ELSE autoOpens
  /\ UNCHANGED << videoBound, segments, overlayContainer >>
  /\ Quiet

\* a timeupdate event at any playback position
OnTimeUpdate(t) == onTimeUpdate(t) /\ UNCHANGED offPage

\* quiz button click, or Alt+Q through onKeydown: a manual openOverlay();
\* lastProbe notes that the step was a manual open, and whether the
\* segment's id was in trigger memory already
ManualOpen ==
  /\ OpenOverlayActs(overlayContainer, activeSegment, overlayVisible)
  /\ overlayVisible' = TRUE
  /\ paused' = PausedAfterOpen(videoBound, paused)
  /\ openedSegmentIds' = OpenedAfterOpen(openedSegmentIds, activeSegment)
  /\ UNCHANGED << videoBound, segments, activeSegment, overlayContainer,
                  autoOpens >>
  /\ UNCHANGED offPage
  /\ emitted' = << >>
  /\ lastProbe' = [NoProbe EXCEPT
                     !.result = IF SegKey(activeSegment) \in openedSegmentIds
                                THEN "reopen" ELSE "manual"]
  /\ UNCHANGED bus

\* closeOverlay: `if (videoEl) videoEl.play()`
CloseOverlay ==
  /\ overlayContainer
  /\ overlayVisible
  /\ overlayVisible' = FALSE
  /\ paused' = IF videoBound THEN FALSE ELSE paused
  /\ UNCHANGED << videoBound, segments, activeSegment, overlayContainer,
                  openedSegmentIds, autoOpens >>
  /\ UNCHANGED offPage
  /\ Quiet

\* handleWsUpdate, case "segment_ready"
PageSegmentReady(seg) ==
  /\ Len(segments) < MaxSegs
  /\ segments' = Append(segments, seg)
  /\ UNCHANGED << videoBound, activeSegment, overlayContainer,
                  overlayVisible, paused, openedSegmentIds, autoOpens >>
  /\ UNCHANGED offPage
  /\ Quiet

\* fetchSegments: the reply of video:segments replaces the list
PageFetchSegments(list) ==
  /\ segments' = list
  /\ UNCHANGED << videoBound, activeSegment, overlayContainer,
                  overlayVisible, paused, openedSegmentIds, autoOpens >>
  /\ UNCHANGED offPage
  /\ Quiet

\* resetVideoState, run by the yt-navigate-finish listener and by init()
ResetVideoState ==
  /\ videoBound' = FALSE
  /\ activeSegment' = NoSegment
  /\ segments' = << >>
  /\ UNCHANGED << overlayContainer, overlayVisible, paused, openedSegmentIds,
                  autoOpens >>
  /\ UNCHANGED offPage
  /\ Quiet

\* init(), from bindVideoEvents() on
BindVideoEvents ==
  /\ ~videoBound
  /\ videoBound' = TRUE
  /\ UNCHANGED << segments, activeSegment, overlayContainer, overlayVisible, paused,
                  openedSegmentIds, autoOpens >>
  /\ UNCHANGED offPage
  /\ Quiet

\* onBackgroundMessage: a video:seek message with a numeric start_time
\* while there is a video element: sets currentTime and calls play()
VideoSeek ==
  /\ videoBound
  /\ paused' = FALSE
  /\ UNCHANGED << videoBound, segments, activeSegment, overlayContainer,
                  overlayVisible, openedSegmentIds, autoOpens >>
  /\ UNCHANGED offPage
  /\ Quiet

\* ensureOverlayLoaded: the overlay surface exists from here on
EnsureOverlayLoaded ==
  /\ ~overlayContainer
  /\ overlayContainer' = TRUE
  /\ UNCHANGED << videoBound, segments, activeSegment, overlayVisible, paused,
                  openedSegmentIds, autoOpens >>
  /\ UNCHANGED offPage
  /\ Quiet

\* two adjacent segments, the first ending at e
AdjacentSegments(e) ==
  << [id |-> 1, segment_id |-> 0, start_time |-> 0, end_time |-> e],
     [id |-> 2, segment_id |-> 0, start_time |-> e, end_time |-> 90] >>

\* a page that has its segments, its video events and its overlay surface,
\* TicksBefore + 1 seconds before the first segment ends
PlaybackInit ==
  /\ videoBound = TRUE
  /\ \E e \in MinEnd .. MaxEnd :
       /\ segments = AdjacentSegments(e)
       /\ clock = e - TicksBefore - 1
  /\ activeSegment = NoSegment
  /\ overlayContainer = TRUE
  /\ overlayVisible = FALSE
  /\ paused = FALSE
  /\ openedSegmentIds = {}
  /\ autoOpens = [k \in SegIds |-> 0]
  /\ overlay = NoOverlay
  /\ inits = [a \in 1 .. NTabs |-> [pc |-> "done", currentTaskId |-> "T1"]]
  /\ quiz = [q \in 1 .. NQuiz |->
              [disabled |-> FALSE, selected |-> 0, correct |-> {},
               incorrect |-> {}, status |-> "none", inFlight |-> 0,
               reply |-> "none"]]

\* the next throttled tick of a playback: one second after the latest
PlaybackTick ==
  /\ clock < segments[1].end_time + TicksAfter
  /\ onTimeUpdate(clock + 1)
  /\ clock' = clock + 1
  /\ UNCHANGED << inits, quiz, authVars, wsVars, videoVars, panelVars,
                  settings, startup, failedTasks, overlay >>

\* playback through the end of a segment, the user closing the overlay
PlaybackNext == PlaybackTick \/ CloseOverlay

\* the user seeks to second t; the timeupdate event that follows is a tick
SeekTick(t) ==
  /\ t # clock
  /\ onTimeUpdate(t)
  /\ clock' = t
  /\ UNCHANGED << inits, quiz, authVars, wsVars, videoVars, panelVars,
                  settings, startup, failedTasks, overlay >>

\* playback with seeks
SeekNext ==
  \/ PlaybackTick
  \/ CloseOverlay
  \/ \E t \in 0 .. MaxEnd + TicksAfter : SeekTick(t)

\* what the quiz:review round trip of openOverlay can end with: null (no
\* reply, lastError), { ok: false, error }, { ok: true, data } with data that
\* is no list, or with a list of the reviews of the answered quizzes; items
\* is what a reader that took the reply for a list would find in it
ReviewReplies ==
  { [kind |-> "null", items |-> {}], [kind |-> "fail", items |-> {1}],
    [kind |-> "nonlist", items |-> {1}] }
    \cup { [kind |-> "list", items |-> S] : S \in SUBSET (1 .. NQuiz) }

\* a reader that takes every reply for a list
reviewItems_unchecked(res) == res.items

\* openOverlay: res?.data ?? res ?? [], then Array.isArray(data) ? data : []
reviewItems(res) == IF res.kind = "list" THEN res.items ELSE {}

\* the next tick of a playback that openOverlay has not paused; an
\* openOverlay that shows the overlay sends quiz:review for the segment
OverlayTick ==
  /\ ~overlayVisible
  /\ clock < segments[1].end_time + TicksAfter
  /\ onTimeUpdate(clock + 1)
  /\ clock' = clock + 1
  /\ IF overlayVisible'
     THEN /\ Len(overlay.pending) < MaxInFlight
          /\ overlay' = [overlay EXCEPT
                           !.pending = Append(@, SegKey(activeSegment'))]
     ELSE UNCHANGED overlay
  /\ UNCHANGED << inits, quiz, authVars, wsVars, videoVars, panelVars,
                  settings, startup, failedTasks >>

\* the quiz:review round trip ends with res: renderOverlay(activeSegment,
\* items), which throws before it renders when activeSegment is null
ReviewReply(res) ==
  /\ overlay.pending # << >>
  /\ overlay' = [pending |-> Tail(overlay.pending),
                 rendered |-> IF activeSegment # NoSegment
                              THEN [segment |-> SegKey(activeSegment),
                                    review |-> reviewItems(res)]
                              ELSE overlay.rendered,
                 reply |-> res.kind]
  /\ Quiet
  /\ UNCHANGED << playerVars, clock, inits, quiz, authVars, wsVars, videoVars,
                  panelVars, settings, startup, failedTasks >>

\* playback into a segment's window, the overlay and its review
OverlayNext ==
  \/ OverlayTick
  \/ CloseOverlay
  \/ \E res \in ReviewReplies : ReviewReply(res)

SegLists == UNION { [1 .. n -> SegPool] : n \in 0 .. MaxSegs }

PageInit ==
  /\ videoBound = FALSE
  /\ segments = << >>
  /\ activeSegment = NoSegment
  /\ overlayContainer = FALSE
  /\ overlayVisible = FALSE
  /\ paused = FALSE
  /\ openedSegmentIds = {}
  /\ autoOpens = [k \in SegIds |-> 0]
  /\ clock = 0
  /\ overlay = NoOverlay
  /\ inits = [a \in 1 .. NTabs |-> [pc |-> "idle", currentTaskId |-> "none"]]
  /\ quiz = [q \in 1 .. NQuiz |->
              [disabled |-> FALSE, selected |-> 0, correct |-> {},
               incorrect |-> {}, status |-> "none", inFlight |-> 0,
               reply |-> "none"]]

PageNext ==
  \/ \E t \in Times : OnTimeUpdate(t)
  \/ ManualOpen
  \/ CloseOverlay
  \/ \E seg \in SegPool : PageSegmentReady(seg)
  \/ \E list \in SegLists : PageFetchSegments(list)
  \/ ResetVideoState
  \/ BindVideoEvents
  \/ EnsureOverlayLoaded

\* the page and the seeks the Panel asks for
PauseNext ==
  \/ PageNext
  \/ VideoSeek

(***************************************************************************)
(* Connection Coordinator (background.js): the API client and the Session  *)
(***************************************************************************)
Tokens == 1 .. MaxTok
Calls == 1 .. NCalls
NoUser == "null"
Users == {"u1"}
Kinds == {"data", "login", "register"}

IdleCall ==
  [pc |-> "idle", kind |-> "data", attemptRefresh |-> TRUE, status |-> 0,
   fetches |-> 0, refreshes |-> 0, refreshFailed |-> FALSE, sent |-> 0]

\* a retry that may refresh again
RetryAttemptRefresh_true == TRUE

\* apiFetch line 134: the attemptRefresh argument of the retry
RetryAttemptRefresh == FALSE

\* persistTokens: the assignments before its await
persistTokens(access, refresh) ==
  /\ accessToken' = access
  /\ refreshToken' = refresh

\* clearTokens: the assignments before its await
clearTokens ==
  /\ accessToken' = 0
  /\ refreshToken' = 0
  /\ user' = NoUser

\* a handler calls apiFetch(path, options): up to `await fetch(...)`
ApiFetchStart(c, k) ==
  /\ call[c].pc = "idle"
  /\ call' = [call EXCEPT ![c] =
                [IdleCall EXCEPT !.pc = "fetch", !.kind = k, !.fetches = 1]]
  /\ UNCHANGED << accessToken, refreshToken, user >>
  /\ UNCHANGED << offAuth, logout >>
  /\ Quiet

\* `await fetch(...)` throws: apiFetch rethrows the network error
ApiFetchNetworkError(c) ==
  /\ call[c].pc = "fetch"
  /\ call' = [call EXCEPT ![c].pc = "threw", ![c].status = 0]
  /\ UNCHANGED << accessToken, refreshToken, user >>
  /\ UNCHANGED << offAuth, logout >>
  /\ Quiet

\* `await fetch(...)` resolves with `status`: lines 131-149, up to the next
\* await.  On 401 with attemptRefresh and a refresh token, refreshTokens()
\* runs up to its own `await fetch(.../api/auth/refresh)`, whose body holds
\* state.refreshToken as it is now (`sent`, kept until that fetch settles).
ApiFetchResponse(c, status) ==
  /\ call[c].pc = "fetch"
  /\ IF status = 401 /\ call[c].attemptRefresh /\ refreshToken # 0
     THEN call' = [call EXCEPT ![c].pc = "refresh", ![c].status = status,
                               ![c].refreshes = @ + 1,
                               ![c].sent = refreshToken]
     ELSE IF status # 200
     THEN call' = [call EXCEPT ![c].pc = "threw", ![c].status = status]
     ELSE call' = [call EXCEPT ![c].pc = "ok", ![c].status = status]
  /\ UNCHANGED << accessToken, refreshToken, user >>
  /\ UNCHANGED << offAuth, logout >>
  /\ Quiet

\* refreshTokens: the refresh fetch throws or answers not ok; the catch
\* block runs clearTokens() up to its await
RefreshFails(c) ==
  /\ call[c].pc = "refresh"
  /\ clearTokens
  /\ call' = [call EXCEPT ![c].pc = "clear", ![c].refreshFailed = TRUE,
                          ![c].sent = 0]
  /\ UNCHANGED << offAuth, logout >>
  /\ Quiet

\* refreshTokens: the refresh fetch answers ok; `await data.json()`
RefreshOk(c) ==
  /\ call[c].pc = "refresh"
  /\ call' = [call EXCEPT ![c].pc = "refreshJson", ![c].sent = 0]
  /\ UNCHANGED << accessToken, refreshToken, user >>
  /\ UNCHANGED << offAuth, logout >>
  /\ Quiet

\* refreshTokens lines 189-193: the body parses to access and refresh
\* (refresh 0: no refresh_token in it); persistTokens up to its await
RefreshJson(c, access, refresh) ==
  /\ call[c].pc = "refreshJson"
  /\ persistTokens(access, IF refresh # 0 THEN refresh ELSE refreshToken)
  /\ call' = [call EXCEPT ![c].pc = "persist"]
  /\ UNCHANGED user
  /\ UNCHANGED << offAuth, logout >>
  /\ Quiet

\* refreshTokens: `await data.json()` throws; catch block as in RefreshFails
RefreshJsonFails(c) ==
  /\ call[c].pc = "refreshJson"
  /\ clearTokens
  /\ call' = [call EXCEPT ![c].pc = "clear", ![c].refreshFailed = TRUE]
  /\ UNCHANGED << offAuth, logout >>
  /\ Quiet

\* refreshTokens returns true; apiFetch line 134 retries the request
RefreshedRetry(c) ==
  /\ call[c].pc = "persist"
  /\ call' = [call EXCEPT ![c].pc = "fetch",
                          ![c].attemptRefresh = RetryAttemptRefresh,
                          ![c].fetches = @ + 1]
  /\ UNCHANGED << accessToken, refreshToken, user >>
  /\ UNCHANGED << offAuth, logout >>
  /\ Quiet

\* refreshTokens returns false; apiFetch falls to lines 138-147 and throws
RefreshFailedThrow(c) ==
  /\ call[c].pc = "clear"
  /\ call' = [call EXCEPT ![c].pc = "threw"]
  /\ UNCHANGED << accessToken, refreshToken, user >>
  /\ UNCHANGED << offAuth, logout >>
  /\ Quiet

\* login lines 166-167: apiFetch returned data; persistTokens up to its await
LoginPersist(c, access, refresh) ==
  /\ call[c].pc = "ok"
  /\ call[c].kind = "login"
  /\ persistTokens(access, refresh)
  /\ call' = [call EXCEPT ![c].pc = "loginPersist"]
  /\ logout' = [logout EXCEPT !.done = FALSE]
  /\ UNCHANGED user
  /\ UNCHANGED offAuth
  /\ Quiet

\* login lines 167-169: state.user = data.user || { email }
LoginUser(c, u) ==
  /\ call[c].pc = "loginPersist"
  /\ user' = u
  /\ call' = [call EXCEPT ![c].pc = "done"]
  /\ UNCHANGED << accessToken, refreshToken >>
  /\ UNCHANGED << offAuth, logout >>
  /\ Quiet

\* run: the handler that made the call (a data handler or register after
\* apiFetch, login after its last await) replies to its requester with
\* { ok: true, data } or { ok: false, error }, which no other consumer
\* sees; the slot is free again
CallEnds(c) ==
  /\ \/ call[c].pc \in {"threw", "done"}
     \/ call[c].pc = "ok" /\ call[c].kind \in {"data", "register"}
  /\ call' = [call EXCEPT ![c] = IdleCall]
  /\ UNCHANGED << accessToken, refreshToken, user >>
  /\ UNCHANGED << offAuth, logout >>
  /\ Quiet

\* loadStoredState: the Session as read from storage, signed in or not
AuthInit ==
  /\ \E t \in {0} \cup Tokens :
       /\ accessToken = t
       /\ refreshToken = t
       /\ user = IF t = 0 THEN NoUser ELSE "u1"
  /\ call = [c \in Calls |-> IdleCall]
  /\ logout = [pc |-> "idle", done |-> FALSE]

AuthNext ==
  \/ \E c \in Calls, k \in Kinds : ApiFetchStart(c, k)
  \/ \E c \in Calls : ApiFetchNetworkError(c)
  \/ \E c \in Calls, status \in {200, 401, 500} : ApiFetchResponse(c, status)
  \/ \E c \in Calls : RefreshFails(c)
  \/ \E c \in Calls : RefreshOk(c)
  \/ \E c \in Calls, a \in Tokens, r \in {0} \cup Tokens : RefreshJson(c, a, r)
  \/ \E c \in Calls : RefreshJsonFails(c)
  \/ \E c \in Calls : RefreshedRetry(c)
  \/ \E c \in Calls : RefreshFailedThrow(c)
  \/ \E c \in Calls, a \in Tokens, r \in Tokens : LoginPersist(c, a, r)
  \/ \E c \in Calls, u \in Users : LoginUser(c, u)
  \/ \E c \in Calls : CallEnds(c)

\* two authorized data requests in flight at once, e.g. the quiz:review and
\* the segments request of two tabs
TwoCalls == {1, 2}

RotateInit ==
  /\ accessToken = 1
  /\ refreshToken = 1
  /\ user = "u1"
  /\ call = [c \in TwoCalls |-> IdleCall]
  /\ logout = [pc |-> "idle", done |-> FALSE]

RotateNext ==
  \/ \E c \in TwoCalls : ApiFetchStart(c, "data")
  \/ \E c \in TwoCalls : ApiFetchNetworkError(c)
  \/ \E c \in TwoCalls, status \in {200, 401} : ApiFetchResponse(c, status)
  \/ \E c \in TwoCalls : RefreshFails(c)
  \/ \E c \in TwoCalls : RefreshOk(c)
  \/ \E c \in TwoCalls, a \in Tokens, r \in {0} \cup Tokens :
       RefreshJson(c, a, r)
  \/ \E c \in TwoCalls : RefreshJsonFails(c)
  \/ \E c \in TwoCalls : RefreshedRetry(c)
  \/ \E c \in TwoCalls : RefreshFailedThrow(c)
  \/ \E c \in TwoCalls : CallEnds(c)

(***************************************************************************)
(* Connection Coordinator (background.js): the push connection             *)
(***************************************************************************)
\* the segments the backend pushes and lists in the Coordinator's runs
PushSegs == { s \in SegPool : s.start_time < 5 }
PushLists == UNION { [1 .. n -> PushSegs] : n \in 0 .. MaxSegs }

Statuses == {"pending", "processing", "completed", "failed"}
\* what the status probe of the reconnect timer can end with: a status, a
\* reply without one, or an exception of apiFetch
ProbeResults == Statuses \cup {"unknown", "error"}
Events == {"connected", "segment_ready", "progress", "completed", "error",
           "other"}

Conn ==
  [ws |-> ws, wsTaskId |-> wsTaskId, orphans |-> orphans,
   wsReconnectTimer |-> wsReconnectTimer, wsPingTimer |-> wsPingTimer]

SetConn(c) ==
  /\ ws' = c.ws
  /\ wsTaskId' = c.wsTaskId
  /\ orphans' = c.orphans
  /\ wsReconnectTimer' = c.wsReconnectTimer
  /\ wsPingTimer' = c.wsPingTimer

RECURSIVE BagSum(_, _)
BagSum(f, S) ==
  IF S = {} THEN 0
  ELSE LET x == CHOOSE y \in S : TRUE IN f[x] + BagSum(f, S \ {x})

\* the sockets of c that can still fire events
Live(c) ==
  BagSum(c.orphans, Tasks)
    + (IF c.ws # NoSocket /\ c.ws.readyState # "CLOSED" THEN 1 ELSE 0)

Fits(c) == Live(c) <= MaxSockets

\* the segments cached over all tasks: what MaxSegs bounds
Cached(cache) == BagSum([t \in Tasks |-> Len(cache[t])], Tasks)

\* stopWebSocketPing
stopWebSocketPing(c) == [c EXCEPT !.wsPingTimer = FALSE]

\* startWebSocketPing
startWebSocketPing(c) == [stopWebSocketPing(c) EXCEPT !.wsPingTimer = TRUE]

\* a closeWebSocket that lets go of the socket without close()
closeWebSocket_noClose(c) ==
  [stopWebSocketPing(c) EXCEPT
     !.ws = NoSocket,
     !.wsTaskId = NoTask,
     !.wsReconnectTimer = NoTask]

\* closeWebSocket: close() on a socket that is connecting or open starts
\* its closing handshake, whose close event comes later
closeWebSocket(c) ==
  [stopWebSocketPing(c) EXCEPT
     !.orphans = IF c.ws # NoSocket
                    /\ c.ws.readyState \in {"CONNECTING", "OPEN"}
                 THEN [c.orphans EXCEPT ![c.ws.taskId] = @ + 1]
                 ELSE c.orphans,
     !.ws = NoSocket,
     !.wsTaskId = NoTask,
     !.wsReconnectTimer = NoTask]

\* an openWebSocket without its first test
openWebSocket_always(c, t) ==
  [closeWebSocket(c) EXCEPT
     !.ws = [taskId |-> t, readyState |-> "CONNECTING"],
     !.wsTaskId = t]

\* openWebSocket
openWebSocket(c, t) ==
  IF c.ws # NoSocket /\ c.wsTaskId = t
  THEN c
  ELSE [closeWebSocket(c) EXCEPT
          !.ws = [taskId |-> t, readyState |-> "CONNECTING"],
          !.wsTaskId = t]

\* scheduleReconnect, up to setTimeout
scheduleReconnect(c, t) ==
  IF c.wsReconnectTimer # NoTask THEN c ELSE [c EXCEPT !.wsReconnectTimer = t]

\* ws.onclose of a socket opened for t
onclose(c, t) ==
  IF c.wsTaskId = t
  THEN scheduleReconnect(stopWebSocketPing(c), t)
  ELSE stopWebSocketPing(c)

\* a reconnect timer that reconnects whatever the status
ShouldReconnect_always(status) == TRUE

\* scheduleReconnect line 435: the statuses that reconnect
ShouldReconnect(status) == status \in {"processing", "pending"}

\* a cache that drops a segment it already holds
CacheAfterSegment_dedupe(list, seg) ==
  IF \E i \in 1 .. Len(list) : list[i] = seg THEN list ELSE Append(list, seg)

\* handleWsEvent, case "segment_ready": list.push(payload.segment)
CacheAfterSegment(list, seg) == Append(list, seg)

\* handleWsEvent: the cache after the switch statement
ApplyEvent(cache, t, payload) ==
  IF payload.event = "segment_ready" /\ payload.segment # NoSegment
  THEN [cache EXCEPT ![t] = CacheAfterSegment(@, payload.segment)]
  ELSE cache

\* a broadcast sent before the switch statement
CacheAtBroadcast_early(cache, t, payload) == cache

\* handleWsEvent lines 418-420: sendBroadcast runs after the switch, on the
\* cache the switch left
CacheAtBroadcast(cache, t, payload) == ApplyEvent(cache, t, payload)

\* handlerMap["ws:connect"]: the connection it leaves
wsConnect(c, t) ==
  IF c.ws # NoSocket /\ c.wsTaskId = t /\ c.ws.readyState = "OPEN"
  THEN c
  ELSE openWebSocket(c, t)

\* a handler that replaces the socket on every call
WsConnect_reopen(t) ==
  /\ LET c == [closeWebSocket(Conn) EXCEPT
                 !.ws = [taskId |-> t, readyState |-> "CONNECTING"],
                 !.wsTaskId = t]
     IN  Fits(c) /\ SetConn(c)
  /\ Emit(<< Reply("ws:connect", t) >>)
  /\ UNCHANGED << probes, linger, segmentsByTask >>
  /\ UNCHANGED offWs

\* a ws:connect request of the Page Agent: handlerMap["ws:connect"] and
\* the reply of run
WsConnect(t) ==
  /\ LET c == wsConnect(Conn, t)
     IN  Fits(c) /\ SetConn(c)
  /\ Emit(<< Reply("ws:connect", t) >>)
  /\ UNCHANGED << probes, linger, segmentsByTask >>
  /\ UNCHANGED offWs

\* handlerMap["ws:disconnect"]
WsDisconnect ==
  /\ SetConn(closeWebSocket(Conn))
  /\ Emit(<< Reply("ws:disconnect", NoTask) >>)
  /\ UNCHANGED << probes, linger, segmentsByTask >>
  /\ UNCHANGED offWs

\* the open event of state.ws: ws.onopen
SocketOpens ==
  /\ ws # NoSocket
  /\ ws.readyState = "CONNECTING"
  /\ SetConn(startWebSocketPing([Conn EXCEPT !.ws.readyState = "OPEN"]))
  /\ Emit(<< WsStateMsg("connected", ws.taskId) >>)
  /\ UNCHANGED << probes, linger, segmentsByTask >>
  /\ UNCHANGED offWs

\* the close event of state.ws (the peer closed it, or it failed to
\* connect): ws.onclose
SocketCloses ==
  /\ ws # NoSocket
  /\ ws.readyState \in {"CONNECTING", "OPEN"}
  /\ SetConn(onclose([Conn EXCEPT !.ws.readyState = "CLOSED"], ws.taskId))
  /\ Emit(<< WsStateMsg("disconnected", ws.taskId) >>)
  /\ UNCHANGED << probes, linger, segmentsByTask >>
  /\ UNCHANGED offWs

\* the close event of a socket closeWebSocket let go of: its ws.onclose
OrphanCloses(t) ==
  /\ orphans[t] > 0
  /\ SetConn(onclose([Conn EXCEPT !.orphans[t] = @ - 1], t))
  /\ Emit(<< WsStateMsg("disconnected", t) >>)
  /\ UNCHANGED << probes, linger, segmentsByTask >>
  /\ UNCHANGED offWs

\* ws.onmessage with data that parses, handleWsEvent
socketMessage(ev, seg) ==
  /\ ws # NoSocket
  /\ ws.readyState = "OPEN"
  /\ seg # NoSegment => ev = "segment_ready"
  /\ LET t == ws.taskId
         payload == [event |-> ev, segment |-> seg]
     IN  /\ seg # NoSegment => Cached(segmentsByTask) < MaxSegs
         /\ ev = "completed" => linger[t] < MaxInFlight
         /\ segmentsByTask' = ApplyEvent(segmentsByTask, t, payload)
         /\ linger' = IF ev = "completed"
                      THEN [linger EXCEPT ![t] = @ + 1]
                      ELSE linger
         /\ Emit(<< WsEventMsg(t, payload,
                    CacheAtBroadcast(segmentsByTask, t, payload)[t]) >>)
  /\ UNCHANGED << connVars, probes >>

\* a message event of state.ws that parses
SocketMessage(ev, seg) == socketMessage(ev, seg) /\ UNCHANGED offWs

\* a message event of state.ws that parses and carries no segment; the
\* tasks the backend has reported as failed are noted as history
SocketEvent(ev) ==
  /\ socketMessage(ev, NoSegment)
  /\ failedTasks' = IF ev = "error" THEN failedTasks \cup {ws.taskId}
                    ELSE failedTasks
  /\ UNCHANGED << pageVars, authVars, videoVars, panelVars, settings, startup,
                  clock, overlay >>

\* the catch of JSON.parse in ws.onmessage, with a variant that gives the
\* connection up
OnParseFailure_closes(c) == closeWebSocket(c)

\* the catch of JSON.parse in ws.onmessage: log and return
OnParseFailure(c) == c

\* a message event of state.ws that does not parse: ws.onmessage returns;
\* lastProbe records, as history, that the step dropped a message
SocketGarbage ==
  /\ ws # NoSocket
  /\ ws.readyState = "OPEN"
  /\ SetConn(OnParseFailure(Conn))
  /\ emitted' = << >>
  /\ lastProbe' = [taskId |-> ws.taskId, result |-> "malformed",
                   reconnects |-> FALSE]
  /\ UNCHANGED bus
  /\ UNCHANGED << probes, linger, segmentsByTask >>
  /\ UNCHANGED offWs

\* the 2 s timer of scheduleReconnect fires: up to `await apiFetch(status)`
ReconnectTimerFires ==
  /\ wsReconnectTimer # NoTask
  /\ probes[wsReconnectTimer] < MaxInFlight
  /\ probes' = [probes EXCEPT ![wsReconnectTimer] = @ + 1]
  /\ wsReconnectTimer' = NoTask
  /\ Quiet
  /\ UNCHANGED << ws, wsTaskId, orphans, wsPingTimer, linger, segmentsByTask >>
  /\ UNCHANGED offWs

\* the status probe of the reconnect timer ends with r: lines 433-450
ReconnectProbeReturns(t, r) ==
  /\ probes[t] > 0
  /\ probes' = [probes EXCEPT ![t] = @ - 1]
  /\ LET opens == IF r = "error" THEN TRUE ELSE ShouldReconnect(r)
         c == IF opens THEN openWebSocket(Conn, t) ELSE Conn
     IN  /\ Fits(c)
         /\ SetConn(c)
         /\ lastProbe' = [taskId |-> t, result |-> r, reconnects |-> opens]
  /\ emitted' = << >>
  /\ UNCHANGED bus
  /\ UNCHANGED << linger, segmentsByTask >>
  /\ UNCHANGED offWs

\* the 5 s timer of handleWsEvent's case "completed" fires
LingerFires(t) ==
  /\ linger[t] > 0
  /\ linger' = [linger EXCEPT ![t] = @ - 1]
  /\ SetConn(IF wsTaskId = t THEN closeWebSocket(Conn) ELSE Conn)
  /\ Quiet
  /\ UNCHANGED << probes, segmentsByTask >>
  /\ UNCHANGED offWs

\* handlerMap["video:segments"], getSegments: the backend's list replaces
\* the cached one
GetSegments(t, list) ==
  /\ Cached([segmentsByTask EXCEPT ![t] = list]) <= MaxSegs
  /\ segmentsByTask' = [segmentsByTask EXCEPT ![t] = list]
  /\ Emit(<< Reply("video:segments", t) >>)
  /\ UNCHANGED << connVars, probes, linger >>
  /\ UNCHANGED offWs

WsInit ==
  /\ ws = NoSocket
  /\ wsTaskId = NoTask
  /\ orphans = [t \in Tasks |-> 0]
  /\ wsReconnectTimer = NoTask
  /\ wsPingTimer = FALSE
  /\ probes = [t \in Tasks |-> 0]
  /\ linger = [t \in Tasks |-> 0]
  /\ segmentsByTask = [t \in Tasks |-> << >>]
  /\ currentTaskId \in {NoTask} \cup Tasks
  /\ failedTasks = {}
  /\ startup = [pc |-> "loading", taskId |-> NoTask, result |-> "none",
                opened |-> FALSE]
  /\ persisting = [x \in {"video:check", "video:upload"} \X Tasks |-> 0]
  /\ uploaded = IF currentTaskId = NoTask THEN {} ELSE {currentTaskId}

\* the push connection of a task the backend may report as failed
FailNext ==
  \/ \E t \in Tasks : WsConnect(t)
  \/ SocketOpens
  \/ SocketCloses
  \/ \E t \in Tasks : OrphanCloses(t)
  \/ \E ev \in Events : SocketEvent(ev)
  \/ ReconnectTimerFires
  \/ \E t \in Tasks, r \in ProbeResults : ReconnectProbeReturns(t, r)
  \/ \E t \in Tasks : LingerFires(t)

\* the push connection alone: the backend pushes events that carry no
\* segment, so the cached lists stay as they are
ConnNext ==
  \/ \E t \in Tasks : WsConnect(t)
  \/ WsDisconnect
  \/ SocketOpens
  \/ SocketCloses
  \/ \E t \in Tasks : OrphanCloses(t)
  \/ \E ev \in Events : SocketMessage(ev, NoSegment)
  \/ SocketGarbage
  \/ ReconnectTimerFires
  \/ \E t \in Tasks, r \in ProbeResults : ReconnectProbeReturns(t, r)
  \/ \E t \in Tasks : LingerFires(t)


\* the cached segment lists under push events and getSegments
CacheNext ==
  \/ \E t \in Tasks : WsConnect(t)
  \/ WsDisconnect
  \/ SocketOpens
  \/ SocketCloses
  \/ \E t \in Tasks : OrphanCloses(t)
  \/ \E ev \in Events, seg \in PushSegs \cup {NoSegment} : SocketMessage(ev, seg)
  \/ SocketGarbage
  \/ \E t \in Tasks : LingerFires(t)
  \/ \E t \in Tasks, list \in PushLists : GetSegments(t, list)

(***************************************************************************)
(* Connection Coordinator (background.js): logout                          *)
(***************************************************************************)
\* handlerMap["auth:logout"], logout: clearTokens up to its await
LogoutStart ==
  /\ logout.pc = "idle"
  /\ clearTokens
  /\ logout' = [logout EXCEPT !.pc = "clearing"]
  /\ UNCHANGED call
  /\ UNCHANGED offAuth
  /\ Quiet

\* logout after clearTokens: closeWebSocket, and the reply of run; from here
\* on auth:logout has completed
LogoutEnd ==
  /\ logout.pc = "clearing"
  /\ logout' = [pc |-> "idle", done |-> TRUE]
  /\ SetConn(closeWebSocket(Conn))
  /\ Emit(<< Reply("auth:logout", NoTask) >>)
  /\ UNCHANGED << accessToken, refreshToken, user, call >>
  /\ UNCHANGED << probes, linger, segmentsByTask >>
  /\ UNCHANGED << pageVars, videoVars, panelVars, otherVars >>

\* the API client, login and logout
LogoutNext ==
  \/ AuthNext
  \/ LogoutStart
  \/ LogoutEnd

(***************************************************************************)
(* Connection Coordinator (background.js): video:check and video:upload    *)
(***************************************************************************)
VideoKinds == {"video:check", "video:upload"}

\* sendBroadcast({ channel: "video", type: "current", taskId, url })
VideoCurrentMsg(t) ==
  [channel |-> "video", type |-> "current", taskId |-> t, payload |-> << >>,
   cache |-> << >>]

\* the handlers of video:check and video:upload at their await
Handlers(f) ==
  LET S == VideoKinds \X Tasks
      Sum[T \in SUBSET S] ==
        IF T = {} THEN 0
        ELSE LET x == CHOOSE y \in T : TRUE IN f[x] + Sum[T \ {x}]
  IN  Sum[S]

\* handlerMap["video:check"/"video:upload"]: checkVideo / uploadVideo
\* returned a task_id; up to `await persistSessionState()`.  The backend
\* finds a task on check only if it has created it, and creates it on
\* upload unless it has.
videoReturns(k, t) ==
  /\ Handlers(persisting) < MaxHandlers
  /\ k = "video:check" => t \in uploaded
  /\ uploaded' = IF k = "video:upload" THEN uploaded \cup {t} ELSE uploaded
  /\ currentTaskId' = t
  /\ persisting' = [persisting EXCEPT ![<< k, t >>] = @ + 1]
  /\ Quiet
  /\ UNCHANGED << playerVars, quiz, authVars, wsVars, panelVars, otherVars >>

\* handlerMap["video:check"/"video:upload"]: the backend's answer holds no
\* task_id; the handler returns it
videoNoTask(k) ==
  /\ Emit(<< Reply(k, NoTask) >>)
  /\ UNCHANGED << playerVars, quiz, authVars, wsVars, videoVars, panelVars, otherVars >>

\* handlerMap["video:check"/"video:upload"] after persistSessionState():
\* the test on state.ws, openWebSocket, sendBroadcast, and the reply of run
videoPersisted(k, t) ==
  /\ persisting[<< k, t >>] > 0
  /\ persisting' = [persisting EXCEPT ![<< k, t >>] = @ - 1]
  /\ LET c == IF ws = NoSocket \/ wsTaskId # t \/ ws.readyState # "OPEN"
              THEN openWebSocket(Conn, t)
              ELSE Conn
     IN  Fits(c) /\ SetConn(c)
  /\ Emit(<< VideoCurrentMsg(t), Reply(k, t) >>)
  /\ UNCHANGED << currentTaskId, uploaded, probes, linger, segmentsByTask >>
  /\ UNCHANGED << playerVars, quiz, authVars, panelVars, otherVars >>

\* the three steps above for a request of a consumer that is not followed
\* further
VideoReturns(k, t) == videoReturns(k, t) /\ UNCHANGED inits

VideoNoTask(k) == videoNoTask(k) /\ UNCHANGED inits

VideoPersisted(k, t) == videoPersisted(k, t) /\ UNCHANGED inits

\* the push connection under video:check, video:upload and ws:connect
VideoNext ==
  \/ \E k \in VideoKinds, t \in Tasks : VideoReturns(k, t)
  \/ \E k \in VideoKinds : VideoNoTask(k)
  \/ \E k \in VideoKinds, t \in Tasks : VideoPersisted(k, t)
  \/ \E t \in Tasks : WsConnect(t)
  \/ SocketOpens
  \/ SocketCloses
  \/ \E t \in Tasks : OrphanCloses(t)
  \/ ReconnectTimerFires
  \/ \E t \in Tasks, r \in ProbeResults : ReconnectProbeReturns(t, r)

(***************************************************************************)
(* Page Agent (content.js): the bus round trips of init(), per tab, for    *)
(* tabs that show the same video                                           *)
(***************************************************************************)
Tabs == 1 .. NTabs

\* the task the backend keeps for the (url, language) of the tabs' video:
\* an upload of a video it has a task for returns that task
PageTask == "T1"

\* init() up to `await sendMessage("video:check", ...)`
InitStart(a) ==
  /\ inits[a].pc \in {"idle", "done"}
  /\ inits' = [inits EXCEPT ![a] =
                 [pc |-> "check", currentTaskId |-> NoTask]]
  /\ Quiet
  /\ UNCHANGED << playerVars, quiz, authVars, wsVars, videoVars, panelVars, otherVars >>

\* the Coordinator's video:check for tab a: checkVideo returns.  Without a
\* task the reply reaches init(), which sends video:upload.
InitCheckReturns(a) ==
  /\ inits[a].pc = "check"
  /\ IF PageTask \in uploaded
     THEN /\ videoReturns("video:check", PageTask)
          /\ inits' = [inits EXCEPT ![a].pc = "checkPersist"]
     ELSE /\ videoNoTask("video:check")
          /\ inits' = [inits EXCEPT ![a].pc = "upload"]

\* the Coordinator's video:check for tab a resolves; init() sets
\* currentTaskId and sends ws:connect
InitCheckPersisted(a) ==
  /\ inits[a].pc = "checkPersist"
  /\ videoPersisted("video:check", PageTask)
  /\ inits' = [inits EXCEPT ![a] =
                 [pc |-> "connectCheck", currentTaskId |-> PageTask]]

\* the Coordinator's video:upload for tab a: uploadVideo returns
InitUploadReturns(a) ==
  /\ inits[a].pc = "upload"
  /\ videoReturns("video:upload", PageTask)
  /\ inits' = [inits EXCEPT ![a].pc = "uploadPersist"]

\* the Coordinator's video:upload for tab a resolves; init() sets
\* currentTaskId and sends ws:connect
InitUploadPersisted(a) ==
  /\ inits[a].pc = "uploadPersist"
  /\ videoPersisted("video:upload", PageTask)
  /\ inits' = [inits EXCEPT ![a] =
                 [pc |-> "connectUpload", currentTaskId |-> PageTask]]

\* the Coordinator's ws:connect for tab a and its reply
InitConnect(a) ==
  /\ inits[a].pc \in {"connectCheck", "connectUpload"}
  /\ LET c == wsConnect(Conn, inits[a].currentTaskId)
     IN  Fits(c) /\ SetConn(c)
  /\ inits' = [inits EXCEPT ![a].pc = "done"]
  /\ Emit(<< Reply("ws:connect", inits[a].currentTaskId) >>)
  /\ UNCHANGED << probes, linger, segmentsByTask >>
  /\ UNCHANGED << playerVars, quiz, authVars, videoVars, panelVars, otherVars >>

\* tabs initializing for one video while its task is processing and the
\* socket stays up
UploadNext ==
  \/ \E a \in Tabs : InitStart(a)
  \/ \E a \in Tabs : InitCheckReturns(a)
  \/ \E a \in Tabs : InitCheckPersisted(a)
  \/ \E a \in Tabs : InitUploadReturns(a)
  \/ \E a \in Tabs : InitUploadPersisted(a)
  \/ \E a \in Tabs : InitConnect(a)
  \/ SocketOpens
  \/ \E ev \in Events \ {"completed"} : SocketMessage(ev, NoSegment)

(***************************************************************************)
(* Page Agent (content.js): init() of one tab and the navigations of its   *)
(* page.  The tab's record holds videoEl !== null, currentTaskId, the url  *)
(* init() read, navigationListenerBound, the page's location, the pending  *)
(* setTimeout(() => init(), 200) calls and the navigations so far; init()  *)
(* is at pc, and `initializing` is pc # "idle".  navAt is history: where   *)
(* init() stood when the latest navigation finished.                       *)
(***************************************************************************)
Pages == {"P1", "P2"}
NoUrl == "none"

\* the task the backend holds for the video of a page
TaskOf(page) == IF page = "P1" THEN "T1" ELSE "T2"

Nav == inits[1]

\* the awaits of init() that wait for a reply over the bus
BusAwaits == {"config", "check", "upload", "connect", "segments"}

\* the script's last line: a call of init() is due
NavTab ==
  [pc |-> "idle", videoEl |-> FALSE, currentTaskId |-> NoTask, url |-> NoUrl,
   exists |-> FALSE, navigationListenerBound |-> FALSE, location |-> "P1",
   timers |-> 1, navs |-> 0, navAt |-> "none"]

NavInit ==
  /\ videoBound = FALSE
  /\ segments = << >>
  /\ activeSegment = NoSegment
  /\ overlayContainer = FALSE
  /\ overlayVisible = FALSE
  /\ paused = FALSE
  /\ openedSegmentIds = {}
  /\ autoOpens = [k \in SegIds |-> 0]
  /\ clock = 0
  /\ overlay = NoOverlay
  /\ inits = << NavTab >>
  /\ quiz = [q \in 1 .. NQuiz |->
              [disabled |-> FALSE, selected |-> 0, correct |-> {},
               incorrect |-> {}, status |-> "none", inFlight |-> 0,
               reply |-> "none"]]

\* what the steps of init() and a navigation leave alone
offNav ==
  << overlayVisible, paused, openedSegmentIds, autoOpens, quiz, authVars, wsVars,
     videoVars, panelVars, otherVars >>

\* init() is called: it returns at once while another init() is running,
\* else it runs up to `await sendMessage("config:get")`
NavInitCalled ==
  /\ Nav.timers > 0
  /\ inits' = [inits EXCEPT ![1].timers = @ - 1,
                            ![1].pc = IF @ = "idle" THEN "config" ELSE @]
  /\ UNCHANGED << videoBound, segments, activeSegment, overlayContainer >>
  /\ UNCHANGED offNav
  /\ Quiet

\* init(): config:get answers with enabled and a user;
\* bindNavigationListener, resetVideoState, up to `await waitForVideo()`
NavConfigReply ==
  /\ Nav.pc = "config"
  /\ inits' = [inits EXCEPT ![1].pc = "video",
                            ![1].navigationListenerBound = TRUE,
                            ![1].videoEl = FALSE,
                            ![1].currentTaskId = NoTask]
  /\ videoBound' = FALSE
  /\ segments' = << >>
  /\ activeSegment' = NoSegment
  /\ UNCHANGED overlayContainer
  /\ UNCHANGED offNav
  /\ Quiet

\* init(): waitForVideo resolves; url = window.location.href; up to
\* `await sendMessage("video:check", ...)`
NavVideoFound ==
  /\ Nav.pc = "video"
  /\ inits' = [inits EXCEPT ![1].pc = "check",
                            ![1].videoEl = TRUE,
                            ![1].url = Nav.location]
  /\ UNCHANGED << videoBound, segments, activeSegment, overlayContainer >>
  /\ UNCHANGED offNav
  /\ Quiet

\* init(): video:check answers; with a task, up to the await of
\* ws:connect, else up to the await of video:upload
NavCheckReply(exists) ==
  /\ Nav.pc = "check"
  /\ inits' = [inits EXCEPT
                 ![1].pc = IF exists THEN "connect" ELSE "upload",
                 ![1].exists = exists,
                 ![1].currentTaskId = IF exists THEN TaskOf(Nav.url) ELSE @]
  /\ UNCHANGED << videoBound, segments, activeSegment, overlayContainer >>
  /\ UNCHANGED offNav
  /\ Quiet

\* init(): video:upload answers with the task of url; up to the await of
\* ws:connect
NavUploadReply ==
  /\ Nav.pc = "upload"
  /\ inits' = [inits EXCEPT ![1].pc = "connect",
                            ![1].currentTaskId = TaskOf(Nav.url)]
  /\ UNCHANGED << videoBound, segments, activeSegment, overlayContainer >>
  /\ UNCHANGED offNav
  /\ Quiet

\* bindVideoEvents
VideoBoundAfterBind(videoEl, bound) == IF videoEl THEN TRUE ELSE bound

\* init(): ws:connect answers; on the check path up to the await of
\* fetchSegments, else bindVideoEvents and up to the await of
\* ensureOverlayLoaded
NavConnectReply ==
  /\ Nav.pc = "connect"
  /\ inits' = [inits EXCEPT
                 ![1].pc = IF Nav.exists THEN "segments" ELSE "overlay"]
  /\ videoBound' = IF Nav.exists THEN videoBound
                   ELSE VideoBoundAfterBind(Nav.videoEl, videoBound)
  /\ UNCHANGED << segments, activeSegment, overlayContainer >>
  /\ UNCHANGED offNav
  /\ Quiet

\* init(): fetchSegments ends, with a list or without; bindVideoEvents and
\* up to the await of ensureOverlayLoaded
NavSegmentsReply(ok, list) ==
  /\ Nav.pc = "segments"
  /\ inits' = [inits EXCEPT ![1].pc = "overlay"]
  /\ segments' = IF ok THEN list ELSE segments
  /\ videoBound' = VideoBoundAfterBind(Nav.videoEl, videoBound)
  /\ UNCHANGED << activeSegment, overlayContainer >>
  /\ UNCHANGED offNav
  /\ Quiet

\* init(): ensureOverlayLoaded ends; ensureQuizButton,
\* bindKeyboardShortcuts, and `finally { initializing = false }`
NavOverlayLoaded ==
  /\ Nav.pc = "overlay"
  /\ inits' = [inits EXCEPT ![1].pc = "idle"]
  /\ overlayContainer' = TRUE
  /\ UNCHANGED << videoBound, segments, activeSegment >>
  /\ UNCHANGED offNav
  /\ Quiet

\* yt-navigate-finish: the page is at another video; resetVideoState and
\* setTimeout(() => init(), 200)
NavigateFinish(page) ==
  /\ Nav.navigationListenerBound
  /\ Nav.navs < MaxNav
  /\ page # Nav.location
  /\ inits' = [inits EXCEPT ![1].location = page,
                            ![1].navs = @ + 1,
                            ![1].navAt = Nav.pc,
                            ![1].timers = @ + 1,
                            ![1].videoEl = FALSE,
                            ![1].currentTaskId = NoTask]
  /\ videoBound' = FALSE
  /\ segments' = << >>
  /\ activeSegment' = NoSegment
  /\ UNCHANGED overlayContainer
  /\ UNCHANGED offNav
  /\ Quiet

\* the steps the event loop takes once their event is due
NavProgress ==
  \/ NavInitCalled
  \/ NavConfigReply
  \/ NavVideoFound
  \/ \E exists \in BOOLEAN : NavCheckReply(exists)
  \/ NavUploadReply
  \/ NavConnectReply
  \/ \E ok \in BOOLEAN, list \in {<< >>, AdjacentSegments(MinEnd)} :
       NavSegmentsReply(ok, list)
  \/ NavOverlayLoaded

NavNext ==
  \/ NavProgress
  \/ \E page \in Pages : NavigateFinish(page)

(***************************************************************************)
(* Page Agent (content.js): answering a question of the overlay            *)
(***************************************************************************)
Quizzes == 1 .. NQuiz
Options == 1 .. MaxOpts

\* what `await sendMessage("quiz:answer", ...)` can end with: null (the bus
\* reported lastError), the Coordinator's { ok: false, error }, an
\* exception, or { ok: true, data } with the backend's is_correct and
\* correct_index (0: no correct_index in it)
AnswerReplies ==
  { [kind |-> k, is_correct |-> FALSE, correct_index |-> 0] :
      k \in {"null", "fail", "throw"} }
    \cup { [kind |-> "data", is_correct |-> b, correct_index |-> i] :
             b \in BOOLEAN, i \in 0 .. MaxOpts }

\* handleAnswer after its await: the try block, the catch block and finally
AnswerShown(qz, res) ==
  LET correctIndex == IF res.kind = "data" THEN res.correct_index ELSE 0
      isCorrect == res.kind = "data" /\ res.is_correct
  IN  IF res.kind = "throw"
      THEN [qz EXCEPT !.status = "retry", !.disabled = FALSE,
                      !.inFlight = 0, !.reply = res.kind]
      ELSE [qz EXCEPT
              !.correct = IF correctIndex # 0 THEN {correctIndex} ELSE {},
              !.incorrect = IF isCorrect THEN {} ELSE {qz.inFlight},
              !.status = IF isCorrect THEN "correct" ELSE "incorrect",
              !.disabled = FALSE,
              !.inFlight = 0,
              !.reply = res.kind]

\* a click on option i of question q: handleAnswer up to its await
HandleAnswer(q, i) ==
  /\ ~quiz[q].disabled
  /\ quiz' = [quiz EXCEPT ![q] =
                [@ EXCEPT !.disabled = TRUE, !.selected = i,
                          !.correct = {}, !.incorrect = {},
                          !.inFlight = i, !.reply = "none"]]
  /\ Quiet
  /\ UNCHANGED << playerVars, inits, authVars, wsVars, videoVars, panelVars, otherVars >>

\* the await of handleAnswer ends with res
AnswerReply(q, res) ==
  /\ quiz[q].inFlight # 0
  /\ quiz' = [quiz EXCEPT ![q] = AnswerShown(@, res)]
  /\ Quiet
  /\ UNCHANGED << playerVars, inits, authVars, wsVars, videoVars, panelVars, otherVars >>

QuizNext ==
  \/ \E q \in Quizzes, i \in Options : HandleAnswer(q, i)
  \/ \E q \in Quizzes, res \in AnswerReplies : AnswerReply(q, res)

(***************************************************************************)
(* Coordinator (background.js): resume after a restart                     *)
(***************************************************************************)
\* the test of autoReconnectOnStartup on the probed status, with a variant
\* that trusts the stored task
StartupShouldOpen_always(r) == TRUE

\* the test of autoReconnectOnStartup on the probed status
StartupShouldOpen(r) == r \in {"processing", "pending"}

\* autoReconnectOnStartup after `await ready`, up to `await apiFetch(status)`
StartupLoaded ==
  /\ startup.pc = "loading"
  /\ startup' = [startup EXCEPT
                   !.pc = IF currentTaskId = NoTask THEN "done" ELSE "probing",
                   !.taskId = currentTaskId]
  /\ Quiet
  /\ UNCHANGED << pageVars, authVars, wsVars, videoVars, panelVars, settings, clock, failedTasks, overlay >>

\* the status probe of autoReconnectOnStartup ends with r: a status, a reply
\* without one, or an exception of apiFetch; openWebSocket is given
\* state.currentTaskId as it is now
StartupProbeReturns(r) ==
  /\ startup.pc = "probing"
  /\ LET opens == r # "error" /\ StartupShouldOpen(r)
         c == IF opens THEN openWebSocket(Conn, currentTaskId) ELSE Conn
     IN  /\ Fits(c)
         /\ SetConn(c)
         /\ startup' = [startup EXCEPT !.pc = "done", !.result = r,
                                       !.opened = (c # Conn)]
  /\ Quiet
  /\ UNCHANGED << probes, linger, segmentsByTask >>
  /\ UNCHANGED << pageVars, authVars, videoVars, panelVars, settings, clock, failedTasks, overlay >>

\* the Coordinator resumes while a page uploads a video and the socket lives
ResumeNext ==
  \/ StartupLoaded
  \/ \E r \in ProbeResults : StartupProbeReturns(r)
  \/ \E t \in Tasks : VideoReturns("video:upload", t)
  \/ \E t \in Tasks : VideoPersisted("video:upload", t)
  \/ SocketOpens
  \/ SocketCloses
  \/ \E t \in Tasks : OrphanCloses(t)

(***************************************************************************)
(* Settings: the Panel's form and copy, the Coordinator's config:set       *)
(***************************************************************************)
Urls == {"http://16.171.11.38:2135", "http://16.170.208.132:2135"}
Languages == {"en", "ru"}

\* sidepanel.js: state as constructed
PanelDefaults ==
  [backendUrl |-> "http://16.171.11.38:2135", language |-> "en",
   enabled |-> TRUE]
\* background.js: state as constructed
CoordDefaults ==
  [backendUrl |-> "http://16.170.208.132:2135", language |-> "en",
   enabled |-> TRUE]
NoPayload == [backendUrl |-> "", language |-> "", enabled |-> FALSE]

\* what the await of config:set ends with: null (bus error), the reply
\* { ok: true, ... } after the three writes, or { ok: false, error } when the
\* storage write number `writes` throws
SaveOutcomes ==
  { [kind |-> "null", writes |-> 0], [kind |-> "ok", writes |-> 3] }
    \cup { [kind |-> "fail", writes |-> k] : k \in 1 .. 3 }

\* config:set: the fields of state assigned before the handler ends; each
\* assignment precedes its storage write
CoordAfterSet(c, payload, writes) ==
  [backendUrl |-> IF writes >= 1 /\ payload.backendUrl # ""
                  THEN payload.backendUrl ELSE c.backendUrl,
   language |-> IF writes >= 2 /\ payload.language # ""
                THEN payload.language ELSE c.language,
   enabled |-> IF writes >= 3 THEN payload.enabled ELSE c.enabled]

\* handleSaveSettings after its await, with an always-copying variant
SettingsAfterReply_optimistic(st, payload, ok) == payload

\* handleSaveSettings after its await: the Panel's copy
SettingsAfterReply(st, payload, ok) == IF ok THEN payload ELSE st

\* the user edits the settings form
EditForm(f) ==
  /\ f # settings.form
  /\ settings' = [settings EXCEPT !.form = f]
  /\ Quiet
  /\ UNCHANGED << pageVars, authVars, wsVars, videoVars, panelVars, startup, clock, failedTasks, overlay >>

\* a click on Save: handleSaveSettings up to its await
HandleSaveSettings ==
  /\ ~settings.saveDisabled
  /\ settings' =
       [settings EXCEPT
          !.payload = [backendUrl |-> IF settings.form.backendUrl # ""
                                      THEN settings.form.backendUrl
                                      ELSE settings.panel.backendUrl,
                       language |-> settings.form.language,
                       enabled |-> settings.form.enabled],
          !.saveDisabled = TRUE,
          !.reply = "none",
          !.changed = FALSE]
  /\ Quiet
  /\ UNCHANGED << pageVars, authVars, wsVars, videoVars, panelVars, startup, clock, failedTasks, overlay >>

\* the Coordinator's config:set runs (not at all on a bus error) and the
\* await of handleSaveSettings ends with outcome o
SaveReply(o) ==
  /\ settings.saveDisabled
  /\ LET after == SettingsAfterReply(settings.panel, settings.payload,
                                     o.kind = "ok")
     IN  settings' =
           [settings EXCEPT
              !.coord = CoordAfterSet(@, settings.payload, o.writes),
              !.panel = after,
              !.saveDisabled = FALSE,
              !.payload = NoPayload,
              !.reply = o.kind,
              !.changed = (after # settings.panel)]
  /\ IF o.kind = "null" THEN Quiet
     ELSE /\ emitted' = << Reply("config:set", currentTaskId) >>
          /\ lastProbe' = NoProbe
          /\ UNCHANGED bus
  /\ UNCHANGED << pageVars, authVars, wsVars, videoVars, panelVars, startup, clock, failedTasks, overlay >>

(***************************************************************************)
(* Panel UI (sidepanel.js)                                                 *)
(***************************************************************************)

\* startStatusPolling: arms the interval unless it is armed
startStatusPolling(p) == [p EXCEPT !.statusPollInterval = TRUE]

\* stopStatusPolling
stopStatusPolling(p) == [p EXCEPT !.statusPollInterval = FALSE]

\* setStatusProcessing
setStatusProcessing(p) ==
  startStatusPolling([p EXCEPT !.statusBadge = "processing"])

\* setStatusCompleted
setStatusCompleted(p) ==
  stopStatusPolling([p EXCEPT !.statusBadge = "completed"])

\* setText(statusBadge, "error") of the failure branches
setStatusError(p) == [p EXCEPT !.statusBadge = "error"]

\* handleWsMessage
handleWsMessage(p, message) ==
  IF message.payload = << >> THEN p
  ELSE
    LET payload == message.payload[1]
        q == IF p.currentTaskId = NoTask /\ message.taskId # NoTask
             THEN [p EXCEPT !.currentTaskId = message.taskId]
             ELSE p
    IN  CASE payload.event = "connected" ->
               stopStatusPolling(setStatusProcessing(q))
          [] payload.event = "segment_ready" ->
               IF payload.segment # NoSegment
               THEN setStatusProcessing(
                      [q EXCEPT !.segments = Append(@, payload.segment),
                                !.segmentTasks = Append(@, message.taskId)])
               ELSE q
          [] payload.event = "progress" -> setStatusProcessing(q)
          [] payload.event = "completed" -> setStatusCompleted(q)
          [] payload.event = "error" -> stopStatusPolling(setStatusError(q))
          [] payload.event = "disconnected" -> startStatusPolling(q)
          [] OTHER -> q

\* the listener bootstrap registers with chrome.runtime.onMessage
onMessage(p, req) ==
  LET q == IF req.channel = "ws" THEN handleWsMessage(p, req) ELSE p
  IN  IF req.channel = "video" /\ req.type = "current"
      THEN setStatusProcessing(
             [q EXCEPT !.currentTaskId =
                         IF req.taskId # NoTask THEN req.taskId ELSE @])
      ELSE q

\* bootstrap after its last await: where it goes once the status is shown
AfterStatus(p) == IF p.segments = << >> THEN "segments" ELSE "ready"

\* bootstrap: the reply to config:get arrives; applyConfig, then up to the
\* next await, the early return, or the registration of the listener
PanelConfigReply ==
  /\ panelPc = "config"
  /\ LET segs == IF currentTaskId # NoTask
                 THEN segmentsByTask[currentTaskId] ELSE << >>
         p == [panel EXCEPT
                 !.user = user,
                 !.currentTaskId = IF currentTaskId # NoTask
                                   THEN currentTaskId ELSE @,
                 !.segments = segs,
                 !.segmentTasks = [i \in 1 .. Len(segs) |-> currentTaskId]]
     IN  IF p.user = NoUser
         THEN /\ panel' = [p EXCEPT !.statusBadge = "login required"]
              /\ panelPc' = "returned"
         ELSE /\ panel' = p
              /\ panelPc' = IF p.currentTaskId # NoTask
                            THEN "status" ELSE "ready"
  /\ settings' = [settings EXCEPT !.panel = settings.coord,
                                  !.form = settings.coord]
  /\ emitted' = << Reply("config:get", currentTaskId) >>
  /\ lastProbe' = NoProbe
  /\ UNCHANGED << polls, pollSegs, bus, videoVars, startup, clock, failedTasks, overlay >>
  /\ UNCHANGED << pageVars, authVars, wsVars >>

\* bootstrap: the reply to video:status arrives with r, up to the next await
PanelStatusReply(r) ==
  /\ panelPc = "status"
  /\ IF r = "completed"
     THEN /\ panel' = setStatusCompleted(panel)
          /\ panelPc' = AfterStatus(panel)
     ELSE IF r = "failed"
     THEN /\ panel' = setStatusError(panel)
          /\ panelPc' = AfterStatus(panel)
     ELSE IF r \in {"processing", "pending"}
     THEN /\ panel' = setStatusProcessing(panel)
          /\ panelPc' = "connect"
     ELSE /\ panel' = setStatusProcessing(panel)
          /\ panelPc' = AfterStatus(panel)
  /\ emitted' = << Reply("video:status", panel.currentTaskId) >>
  /\ lastProbe' = NoProbe
  /\ UNCHANGED << polls, pollSegs, bus, videoVars, otherVars >>
  /\ UNCHANGED << pageVars, authVars, wsVars >>

\* bootstrap: the Coordinator handles its ws:connect and the reply arrives
PanelConnectReply ==
  /\ panelPc = "connect"
  /\ LET c == wsConnect(Conn, panel.currentTaskId)
     IN  Fits(c) /\ SetConn(c)
  /\ panelPc' = AfterStatus(panel)
  /\ emitted' = << Reply("ws:connect", panel.currentTaskId) >>
  /\ lastProbe' = NoProbe
  /\ UNCHANGED << panel, polls, pollSegs, bus, videoVars, otherVars >>
  /\ UNCHANGED << probes, linger, segmentsByTask >>
  /\ UNCHANGED << pageVars, authVars >>

\* bootstrap: the Coordinator handles its video:segments (getSegments puts
\* the backend's list in the cache) and the reply arrives; without ok the
\* backend failed and nothing is stored.  The listener is registered.
PanelSegmentsReply(ok, list) ==
  /\ panelPc = "segments"
  /\ ok => Cached([segmentsByTask EXCEPT ![panel.currentTaskId] = list])
             <= MaxSegs
  /\ segmentsByTask' = IF ok
                       THEN [segmentsByTask EXCEPT
                               ![panel.currentTaskId] = list]
                       ELSE segmentsByTask
  /\ panel' = IF ok
              THEN [panel EXCEPT
                      !.segments = list,
                      !.segmentTasks =
                         [i \in 1 .. Len(list) |-> panel.currentTaskId]]
              ELSE panel
  /\ panelPc' = "ready"
  /\ emitted' = << Reply("video:segments", panel.currentTaskId) >>
  /\ lastProbe' = NoProbe
  /\ UNCHANGED << polls, pollSegs, bus, videoVars, otherVars >>
  /\ UNCHANGED << connVars, probes, linger >>
  /\ UNCHANGED << pageVars, authVars >>

\* a broadcast reaches the listener
PanelDeliver ==
  /\ panelPc = "ready"
  /\ bus # << >>
  /\ panel' = onMessage(panel, Head(bus))
  /\ bus' = Tail(bus)
  /\ emitted' = << >>
  /\ lastProbe' = NoProbe
  /\ UNCHANGED << panelPc, polls, pollSegs, videoVars, otherVars >>
  /\ UNCHANGED << pageVars, authVars, wsVars >>

\* the interval of startStatusPolling fires: up to its await, or its return
PollTick ==
  /\ panel.statusPollInterval
  /\ IF panel.currentTaskId = NoTask
     THEN /\ panel' = stopStatusPolling(panel)
          /\ UNCHANGED polls
     ELSE /\ polls < MaxInFlight
          /\ polls' = polls + 1
          /\ UNCHANGED panel
  /\ emitted' = << >>
  /\ lastProbe' = NoProbe
  /\ UNCHANGED << panelPc, pollSegs, bus, videoVars, otherVars >>
  /\ UNCHANGED << pageVars, authVars, wsVars >>

\* the reply to the poll's video:status arrives with r: up to the await of
\* video:segments, or the end of the callback
PollReply(r) ==
  /\ polls > 0
  /\ polls' = polls - 1
  /\ IF r = "completed"
     THEN /\ panel' = setStatusCompleted(panel)
          /\ IF panel.segments = << >>
             THEN pollSegs < MaxInFlight /\ pollSegs' = pollSegs + 1
             ELSE UNCHANGED pollSegs
     ELSE /\ panel' = IF r = "failed"
                      THEN stopStatusPolling(setStatusError(panel))
                      ELSE panel
          /\ UNCHANGED pollSegs
  /\ emitted' = << Reply("video:status", panel.currentTaskId) >>
  /\ lastProbe' = NoProbe
  /\ UNCHANGED << panelPc, bus, videoVars, otherVars >>
  /\ UNCHANGED << pageVars, authVars, wsVars >>

\* the Coordinator handles the poll's video:segments and the reply arrives
PollSegmentsReply(ok, list) ==
  /\ pollSegs > 0
  /\ pollSegs' = pollSegs - 1
  /\ panel.currentTaskId # NoTask
  /\ ok => Cached([segmentsByTask EXCEPT ![panel.currentTaskId] = list])
             <= MaxSegs
  /\ segmentsByTask' = IF ok
                       THEN [segmentsByTask EXCEPT
                               ![panel.currentTaskId] = list]
                       ELSE segmentsByTask
  /\ panel' = IF ok
              THEN [panel EXCEPT
                      !.segments = list,
                      !.segmentTasks =
                         [i \in 1 .. Len(list) |-> panel.currentTaskId]]
              ELSE panel
  /\ emitted' = << Reply("video:segments", panel.currentTaskId) >>
  /\ lastProbe' = NoProbe
  /\ UNCHANGED << panelPc, polls, bus, videoVars, otherVars >>
  /\ UNCHANGED << connVars, probes, linger >>
  /\ UNCHANGED << pageVars, authVars >>

\* the Panel page as it loads: state of sidepanel.js lines 60-68
PanelInit ==
  /\ panel = [user |-> NoUser, currentTaskId |-> NoTask, segments |-> << >>,
              segmentTasks |-> << >>,
              statusPollInterval |-> FALSE, statusBadge |-> "idle"]
  /\ panelPc = "config"
  /\ polls = 0
  /\ pollSegs = 0
  /\ bus = << >>
  /\ settings = [panel |-> PanelDefaults, coord |-> CoordDefaults,
                 form |-> [backendUrl |-> "", language |-> "en",
                           enabled |-> FALSE],
                 saveDisabled |-> FALSE, payload |-> NoPayload,
                 reply |-> "none", changed |-> FALSE]

\* the Panel and the push connection that feeds it
PanelNext ==
  \/ PanelConfigReply
  \/ \E r \in ProbeResults : PanelStatusReply(r)
  \/ PanelConnectReply
  \/ \E ok \in BOOLEAN, list \in PushLists : PanelSegmentsReply(ok, list)
  \/ PanelDeliver
  \/ PollTick
  \/ \E r \in ProbeResults : PollReply(r)
  \/ \E ok \in BOOLEAN, list \in PushLists : PollSegmentsReply(ok, list)
  \/ SocketOpens
  \/ SocketCloses
  \/ \E t \in Tasks : OrphanCloses(t)
  \/ \E ev \in Events, seg \in PushSegs \cup {NoSegment} : SocketMessage(ev, seg)
  \/ ReconnectTimerFires
  \/ \E t \in Tasks, r \in ProbeResults : ReconnectProbeReturns(t, r)
  \/ \E t \in Tasks : LingerFires(t)

\* the Panel's bootstrap and its settings form
SettingsNext ==
  \/ PanelConfigReply
  \/ \E u \in {""} \cup Urls, l \in Languages, e \in BOOLEAN :
       EditForm([backendUrl |-> u, language |-> l, enabled |-> e])
  \/ HandleSaveSettings
  \/ \E o \in SaveOutcomes : SaveReply(o)

\* the Panel across a switch of the current task: video:upload of other
\* consumers, and the segments pushed over the sockets they open
SwitchNext ==
  \/ PanelConfigReply
  \/ \E r \in ProbeResults : PanelStatusReply(r)
  \/ PanelConnectReply
  \/ \E ok \in BOOLEAN, list \in PushLists : PanelSegmentsReply(ok, list)
  \/ PanelDeliver
  \/ \E t \in Tasks : VideoReturns("video:upload", t)
  \/ \E t \in Tasks : VideoPersisted("video:upload", t)
  \/ SocketOpens
  \/ \E t \in Tasks : OrphanCloses(t)
  \/ \E seg \in PushSegs : SocketMessage("segment_ready", seg)

(***************************************************************************)
(* Specifications                                                          *)
(***************************************************************************)
InitAny ==
  /\ PageInit
  /\ AuthInit
  /\ WsInit
  /\ PanelInit
  /\ emitted = << >>
  /\ lastProbe = NoProbe

\* the Coordinator started without a stored task
Init == InitAny /\ currentTaskId = NoTask

\* the Coordinator started with a stored Session
InitSignedIn == Init /\ accessToken = 1

\* the Panel is opened on a Coordinator with or without a stored Session
\* and a stored task
InitPanel == InitAny /\ accessToken \in {0, 1}

SpecPanel == InitPanel /\ [][PanelNext]_vars

SpecVideo == InitSignedIn /\ [][VideoNext]_vars

SpecQuiz == InitSignedIn /\ [][QuizNext]_vars

SpecSettings == InitPanel /\ [][SettingsNext]_vars

SpecSwitch == InitPanel /\ [][SwitchNext]_vars

\* the Coordinator restarts with a stored Session, with or without a stored task
InitResume == InitAny /\ accessToken = 1

SpecResume == InitResume /\ [][ResumeNext]_vars

SpecUpload == InitSignedIn /\ [][UploadNext]_vars

SpecAuth == Init /\ [][AuthNext]_vars

\* a stored Session and two request slots
InitRotate ==
  /\ PageInit
  /\ RotateInit
  /\ WsInit
  /\ PanelInit
  /\ emitted = << >>
  /\ lastProbe = NoProbe
  /\ currentTaskId = NoTask

SpecRotate == InitRotate /\ [][RotateNext]_vars

\* one tab of a signed-in user, from the load of the content script
InitNav ==
  /\ NavInit
  /\ AuthInit
  /\ accessToken = 1
  /\ WsInit
  /\ PanelInit
  /\ emitted = << >>
  /\ lastProbe = NoProbe
  /\ currentTaskId = NoTask

\* every reply arrives and every timer fires; navigations are up to the user
SpecNav == InitNav /\ [][NavNext]_vars /\ WF_vars(NavProgress)

SpecLogout == Init /\ [][LogoutNext]_vars

SpecConn == InitSignedIn /\ [][ConnNext]_vars

SpecFail == InitSignedIn /\ [][FailNext]_vars

SpecCache == InitSignedIn /\ [][CacheNext]_vars

SpecPage == InitSignedIn /\ [][PageNext]_vars

SpecPause == InitSignedIn /\ [][PauseNext]_vars

InitPlayback ==
  /\ PlaybackInit
  /\ AuthInit /\ accessToken = 1
  /\ WsInit /\ currentTaskId = PageTask
  /\ PanelInit
  /\ emitted = << >>
  /\ lastProbe = NoProbe

SpecPlayback == InitPlayback /\ [][PlaybackNext]_vars

SpecOverlay == InitPlayback /\ [][OverlayNext]_vars

SpecSeek == InitPlayback /\ [][SeekNext]_vars

(***************************************************************************)
(* C1: within one Page Agent lifetime every segment id is auto-opened      *)
(* (the overlay shown by openOverlay called from maybeAutoOpenOverlay) at  *)
(* most once, whatever ticks, manual opens, closes, seeks, navigations and *)
(* segment arrivals are interleaved.                                       *)
(***************************************************************************)
C1_AutoOpenAtMostOnce == \A k \in SegIds : autoOpens[k] <= 1

\* Segment 1 was auto-opened, the overlay was closed again, and a segment
\* with id 1 is the active one, listed and outside trigger memory's reach.
C1_Witness ==
  /\ autoOpens[1] = 1
  /\ ~overlayVisible
  /\ overlayContainer
  /\ videoBound
  /\ activeSegment # NoSegment
  /\ SegKey(activeSegment) = 1
  /\ 1 \in openedSegmentIds

(***************************************************************************)
(* C2: when the socket for a task has closed and the status probe of the   *)
(* reconnect timer returns "processing", the Coordinator creates a new     *)
(* socket for the task (the connection goes on to connecting and open).    *)
(***************************************************************************)
C2_ProbeProcessingOpensSocket ==
  [][\A t \in Tasks :
       (/\ lastProbe'.taskId = t
        /\ lastProbe'.result = "processing"
        /\ wsTaskId = t
        /\ ws = [taskId |-> t, readyState |-> "CLOSED"])
       => ws' = [taskId |-> t, readyState |-> "CONNECTING"]]_vars

(***************************************************************************)
(* C3: a reconnect (openWebSocket called by the reconnect timer) is never  *)
(* attempted for a task when the status probe the timer just made          *)
(* returned "completed" or "failed".                                       *)
(***************************************************************************)
C3_NoReconnectWhenFinished ==
  lastProbe.reconnects => lastProbe.result \notin {"completed", "failed"}

\* The socket of the task closed, the timer fired, and its probe returned
\* "completed" or "failed": the timer left the connection as it was.
C3_Witness ==
  /\ lastProbe.result \in {"completed", "failed"}
  /\ ~lastProbe.reconnects
  /\ wsTaskId = lastProbe.taskId
  /\ ws = [taskId |-> lastProbe.taskId, readyState |-> "CLOSED"]
  /\ wsReconnectTimer = NoTask

(***************************************************************************)
(* C4: a ws:connect request for task T handled while the socket is open    *)
(* for T (the second of two in immediate succession as much as the first)  *)
(* creates no socket and closes none.                                      *)
(***************************************************************************)
C4_ConnectWhileOpenIsNoOp ==
  [][\A t \in Tasks :
       (/\ emitted' = << Reply("ws:connect", t) >>
        /\ wsTaskId = t
        /\ ws = [taskId |-> t, readyState |-> "OPEN"])
       => /\ ws' = ws
          /\ wsTaskId' = wsTaskId
          /\ orphans' = orphans]_vars

\* ws:connect for T1 was just answered and the socket for T1 is open: the
\* request came while it was open, since a socket the request creates is
\* still connecting.
C4_Witness ==
  /\ emitted = << Reply("ws:connect", "T1") >>
  /\ wsTaskId = "T1"
  /\ ws = [taskId |-> "T1", readyState |-> "OPEN"]
  /\ wsPingTimer

(***************************************************************************)
(* C5: one apiFetch call makes at most one token-refresh attempt and at    *)
(* most one retry of its request (two fetches in all), however many 401    *)
(* responses the backend returns.                                          *)
(***************************************************************************)
C5_OneRefreshOneRetry ==
  \A c \in Calls : call[c].refreshes <= 1 /\ call[c].fetches <= 2

\* A call that was refreshed, retried, and got a second 401: it threw.
C5_Witness ==
  \E c \in Calls :
    /\ call[c].pc = "threw"
    /\ call[c].status = 401
    /\ call[c].fetches = 2
    /\ call[c].refreshes = 1
    /\ ~call[c].refreshFailed

(***************************************************************************)
(* C6: when an apiFetch call gets 401 and the refresh it attempts fails,   *)
(* the step that clears the Session (all three fields null) also reports   *)
(* the logout to the consumers, i.e. hands the bus a broadcast.            *)
(***************************************************************************)
C6_RefreshFailureReportsLogout ==
  [][\A c \in Calls :
       (call[c].pc \in {"refresh", "refreshJson"} /\ call'[c].pc = "clear")
       => /\ accessToken' = 0
          /\ refreshToken' = 0
          /\ user' = NoUser
          /\ \E i \in 1 .. Len(emitted') : emitted'[i].channel # "reply"]_vars

(***************************************************************************)
(* C7: each segment_ready event for task T that carries a segment appends  *)
(* that segment at the end of the cached list of T, a segment the list     *)
(* already holds included, and leaves the other lists alone.               *)
(***************************************************************************)
C7_SegmentReadyAppends ==
  [][\A t \in Tasks, s \in PushSegs :
       (/\ Len(emitted') = 1
        /\ emitted'[1].channel = "ws"
        /\ emitted'[1].taskId = t
        /\ emitted'[1].payload
             = << [event |-> "segment_ready", segment |-> s] >>)
       => /\ segmentsByTask'[t] = Append(segmentsByTask[t], s)
          /\ \A u \in Tasks \ {t} : segmentsByTask'[u] = segmentsByTask[u]]_vars

\* The same segment was pushed twice for T1: the list holds it twice.
C7_Witness ==
  /\ Len(emitted) = 1
  /\ emitted[1].channel = "ws"
  /\ emitted[1].taskId = "T1"
  /\ emitted[1].payload # << >>
  /\ emitted[1].payload[1].event = "segment_ready"
  /\ Len(segmentsByTask["T1"]) = 2
  /\ segmentsByTask["T1"][1] = segmentsByTask["T1"][2]
  /\ segmentsByTask["T1"][2] = emitted[1].payload[1].segment

(***************************************************************************)
(* C8: when the broadcast of a segment_ready event is handed to the bus,   *)
(* the segment is already the last one of the cached list of its task.     *)
(***************************************************************************)
C8_CachedBeforeBroadcast ==
  \A i \in 1 .. Len(emitted) :
    LET m == emitted[i] IN
      (/\ m.channel = "ws"
       /\ m.payload # << >>
       /\ m.payload[1].event = "segment_ready"
       /\ m.payload[1].segment # NoSegment)
      => /\ m.cache # << >>
         /\ m.cache[Len(m.cache)] = m.payload[1].segment
         /\ segmentsByTask[m.taskId] = m.cache

\* A segment_ready broadcast for a segment was just handed to the bus.
C8_Witness ==
  \E i \in 1 .. Len(emitted) :
    /\ emitted[i].channel = "ws"
    /\ emitted[i].payload # << >>
    /\ emitted[i].payload[1].event = "segment_ready"
    /\ emitted[i].payload[1].segment # NoSegment
    /\ Len(emitted[i].cache) = 2

(***************************************************************************)
(* C9: when the Panel's listener has just handled a connected,             *)
(* segment_ready or progress event of the push connection and the socket   *)
(* of that task is open, the Panel's status-poll timer is not active.      *)
(***************************************************************************)
C9_NoPollingWhilePushLive ==
  [][(/\ panelPc = "ready"
      /\ bus # << >>
      /\ bus' = Tail(bus)
      /\ Head(bus).channel = "ws"
      /\ Head(bus).payload # << >>
      /\ Head(bus).payload[1].event
           \in {"connected", "segment_ready", "progress"}
      /\ ws' = [taskId |-> Head(bus).taskId, readyState |-> "OPEN"])
     => ~panel'.statusPollInterval]_vars

(***************************************************************************)
(* C10: when the Panel's listener handles the "disconnected" broadcast the *)
(* Coordinator sends on a socket close for the Panel's task, the Panel's   *)
(* status polling is active afterwards.                                    *)
(***************************************************************************)
C10_DisconnectedStartsPolling ==
  [][(/\ panelPc = "ready"
      /\ bus # << >>
      /\ bus' = Tail(bus)
      /\ Head(bus) = WsStateMsg("disconnected", panel.currentTaskId))
     => panel'.statusPollInterval]_vars

(***************************************************************************)
(* C11: when initialization runs again (resetVideoState, on                *)
(* yt-navigate-finish and in init) the Page Agent's trigger memory is      *)
(* emptied and its active-segment pointer is cleared.                      *)
(***************************************************************************)
C11_ReinitEmptiesTriggerMemory ==
  [][(videoBound /\ ~videoBound')
     => (openedSegmentIds' = {} /\ activeSegment' = NoSegment)]_vars

(***************************************************************************)
(* C12: when the socket of task T closes right after the backend's         *)
(* "completed" event for T, no reconnect timer is scheduled for T.         *)
(***************************************************************************)
C12_NoReconnectTimerAfterCompleted ==
  [][\A t \in Tasks :
       (/\ Len(emitted) = 1
        /\ emitted[1].channel = "ws"
        /\ emitted[1].taskId = t
        /\ emitted[1].payload # << >>
        /\ emitted[1].payload[1].event = "completed"
        /\ wsTaskId = t
        /\ ws = [taskId |-> t, readyState |-> "OPEN"]
        /\ ws' = [taskId |-> t, readyState |-> "CLOSED"]
        /\ emitted' = << WsStateMsg("disconnected", t) >>)
       => wsReconnectTimer' # t]_vars

(***************************************************************************)
(* C13: when a video:check or video:upload handler resolves with task id   *)
(* T (no later handler having replaced T as current task meanwhile), T is  *)
(* the Coordinator's current task and the socket it holds is one for T     *)
(* that is connecting or open.                                             *)
(***************************************************************************)
C13_ResolvedTaskHasConnection ==
  [][\A k \in VideoKinds, t \in Tasks :
       (/\ currentTaskId = t
        /\ emitted' = << VideoCurrentMsg(t), Reply(k, t) >>)
       => /\ currentTaskId' = t
          /\ wsTaskId' = t
          /\ ws'.taskId = t
          /\ ws'.readyState \in {"CONNECTING", "OPEN"}]_vars

C15_AbandonedTaskNotReopened ==
  [][\A t \in Tasks :
       (lastProbe'.taskId = t /\ wsTaskId # t) => ws'.taskId # t]_vars

(***************************************************************************)
(* C16: the Panel's segment list never holds segments of two different     *)
(* tasks at the same time.                                                 *)
(***************************************************************************)
C16_PanelListOfOneTask ==
  \A i, j \in 1 .. Len(panel.segmentTasks) :
    panel.segmentTasks[i] = panel.segmentTasks[j]

(***************************************************************************)
(* C17: when a login or a register call returns successfully, the          *)
(* Coordinator holds a Session: accessToken, refreshToken and user are     *)
(* set.                                                                    *)
(***************************************************************************)
C17_AuthSuccessPersistsSession ==
  [][\A c \in Calls :
       (/\ call[c].kind \in {"login", "register"}
        /\ call[c].pc \in {"ok", "done"}
        /\ call'[c].pc = "idle")
       => /\ accessToken' # 0
          /\ refreshToken' # 0
          /\ user' # NoUser]_vars

(***************************************************************************)
(* C18: one login or register call sends its credential request to the     *)
(* backend exactly once.                                                   *)
(***************************************************************************)
C18_AuthNeverRetries ==
  \A c \in Calls :
    call[c].kind \in {"login", "register"} => call[c].fetches <= 1

(***************************************************************************)
(* C19: after an answer submission that failed (bus error, ok:false reply, *)
(* or exception) the question's options are enabled again, its status      *)
(* shows the retryable error, and no option is marked correct or           *)
(* incorrect.                                                              *)
(***************************************************************************)
C19_FailedAnswerShownAsError ==
  \A q \in Quizzes :
    quiz[q].reply \in {"null", "fail", "throw"}
    => /\ ~quiz[q].disabled
       /\ quiz[q].status = "retry"
       /\ quiz[q].correct = {}
       /\ quiz[q].incorrect = {}

(***************************************************************************)
(* C20: every step that changes the Panel's copy of the settings is either *)
(* bootstrap's applyConfig of the Coordinator's config or the end of a     *)
(* config:set the Coordinator acknowledged, and then the copy becomes the  *)
(* payload sent; a config:set that failed or got no reply leaves the copy  *)
(* as it was.                                                              *)
(***************************************************************************)
C20_SettingsChangeOnlyWhenAcknowledged ==
  [][settings'.panel # settings.panel
     => \/ panelPc = "config" /\ panelPc' # "config"
        \/ /\ settings.saveDisabled
           /\ settings'.reply = "ok"
           /\ settings'.panel = settings.payload]_vars

\* an acknowledged config:set has changed the Panel's copy
C20_Witness == settings.reply = "ok" /\ settings.changed

(***************************************************************************)
(* C21: on resume, a step of autoReconnectOnStartup changes the push       *)
(* connection only when it is the return of the status probe made in this  *)
(* run and the probe answered processing or pending; a probe that answers  *)
(* completed, failed, no status, or that throws, opens nothing.            *)
(***************************************************************************)
C21_ResumeOpensOnlyAfterLiveProbe ==
  [][(startup' # startup /\ Conn' # Conn)
     => /\ startup.pc = "probing"
        /\ startup'.result \in {"processing", "pending"}]_vars

\* the probe of the stored task answered processing and the step opened a
\* socket for it
C21_Witness ==
  /\ startup.pc = "done"
  /\ startup.result = "processing"
  /\ startup.opened
  /\ ws.taskId = startup.taskId

(***************************************************************************)
(* C22: a push message that does not parse is dropped alone: the step that *)
(* receives it changes neither the cached segment lists nor the connection *)
(* (socket, timers, pending probes) and broadcasts nothing, and after it   *)
(* the same socket is still open, so later messages are still handled.     *)
(***************************************************************************)
C22_MalformedMessageDroppedAlone ==
  /\ [][lastProbe'.result = "malformed"
        => /\ Conn' = Conn
           /\ segmentsByTask' = segmentsByTask
           /\ probes' = probes
           /\ linger' = linger
           /\ emitted' = << >>
           /\ bus' = bus]_vars
  /\ [](lastProbe.result = "malformed"
        => ws = [taskId |-> lastProbe.taskId, readyState |-> "OPEN"])

\* a malformed message was dropped on an open connection whose task has a
\* cached segment
C22_Witness ==
  /\ lastProbe.result = "malformed"
  /\ ws.readyState = "OPEN"
  /\ segmentsByTask[ws.taskId] # << >>

(***************************************************************************)
(* C23: whenever the Coordinator's current socket is open, the keep-alive  *)
(* (ping) timer is active.                                                 *)
(***************************************************************************)
C23_PingWhileOpen ==
  (ws # NoSocket /\ ws.readyState = "OPEN") => wsPingTimer

(***************************************************************************)
(* C24: with segments [{id 1, 0..e}, {id 2, e..90}] and ticks one second   *)
(* apart from before e - 3 to after e (the overlay closed at any time      *)
(* after it opens), the overlay has auto-opened for segment 1 exactly once *)
(* from the tick at e - 3 on and not before, and never for segment 2; the  *)
(* claim's scenario is e = 30 with ticks 26..33, opening at 27.            *)
(***************************************************************************)
C24_OpensOnceAtWindowStart ==
  /\ autoOpens[1] = (IF clock >= segments[1].end_time - SHOW_EARLY_SECONDS
                     THEN 1 ELSE 0)
  /\ autoOpens[2] = 0

\* the claim's scenario has run to its last tick with the overlay closed
C24_Witness ==
  /\ segments = AdjacentSegments(30)
  /\ clock = 33
  /\ autoOpens[1] = 1
  /\ ~overlayVisible

(***************************************************************************)
(* C25: once auth:logout has completed the access token stays null until   *)
(* the next login: the only step that sets it again is a login persisting  *)
(* the tokens it was answered with.                                        *)
(***************************************************************************)
C25_SessionNullAfterLogout ==
  [][(logout.done /\ accessToken = 0 /\ accessToken' # 0)
     => \E c \in Calls : /\ call[c].kind = "login"
                         /\ call[c].pc = "ok"
                         /\ call'[c].pc = "loginPersist"]_vars

(***************************************************************************)
(* C26: after an error push event was received for task T, no reconnect    *)
(* timer is started for T again.                                           *)
(***************************************************************************)
C26_NoReconnectTimerAfterFailure ==
  [][\A t \in failedTasks :
       wsReconnectTimer' = t => wsReconnectTimer = t]_vars

C28_OpensAnywhereInWindow ==
  [][clock' # clock
     => \A i \in 1 .. Len(segments) :
          (/\ clock' >= windowStart(segments[i])
           /\ clock' <= segments[i].end_time + HIDE_LATE_SECONDS
           /\ SegKey(segments[i]) \notin openedSegmentIds
           /\ ~overlayVisible)
          => /\ overlayVisible'
             /\ activeSegment' = segments[i]
             /\ SegKey(segments[i]) \in openedSegmentIds']_vars

(***************************************************************************)
(* C29: when the status probe of the reconnect timer itself fails (network *)
(* or HTTP error), no reconnect is attempted: the step leaves the socket   *)
(* as it was.                                                              *)
(***************************************************************************)
C29_FailedProbeDoesNotReconnect ==
  [][lastProbe'.result = "error" => ws' = ws]_vars

(***************************************************************************)
(* C30: a ws:connect for T handled while the Coordinator is not open for T *)
(* leaves a newly created socket for T, also when the Coordinator held a   *)
(* socket for T that was still connecting or had already closed.           *)
(***************************************************************************)
C30_ConnectCreatesSocket ==
  [][\A t \in Tasks :
       (/\ emitted' = << Reply("ws:connect", t) >>
        /\ ~(ws.taskId = t /\ ws.readyState = "OPEN"))
       => ws' = [taskId |-> t, readyState |-> "CONNECTING"]]_vars

(***************************************************************************)
(* C31: the cached segment list of a task is append-only: in every step    *)
(* the list held for T before the step is a prefix of the list held for T  *)
(* after it.                                                               *)
(***************************************************************************)
C31_CacheAppendOnly ==
  [][\A t \in Tasks :
       /\ Len(segmentsByTask[t]) <= Len(segmentsByTask'[t])
       /\ SubSeq(segmentsByTask'[t], 1, Len(segmentsByTask[t]))
            = segmentsByTask[t]]_vars

(***************************************************************************)
(* C32: a step that switches the current task from T1, whose connection    *)
(* the Coordinator holds, to T2 leaves no connecting or open push          *)
(* connection bound to another task than T2: T1's connection is torn down  *)
(* before state is bound to T2.                                            *)
(***************************************************************************)
C32_TeardownBeforeBind ==
  [][(/\ currentTaskId # NoTask
      /\ currentTaskId' # currentTaskId
      /\ ws.taskId = currentTaskId)
     => ~(/\ ws' # NoSocket
          /\ ws'.readyState \in {"CONNECTING", "OPEN"}
          /\ ws'.taskId # currentTaskId')]_vars

(***************************************************************************)
(* C33: at most one socket created by the Coordinator is connecting or     *)
(* open: the only such socket is state.ws, and every step that creates a   *)
(* new socket has called close() on the previous one when that one was     *)
(* connecting or open (it is then closing, its close event still to come). *)
(***************************************************************************)
C33_PreviousSocketClosedFirst ==
  [][(ws' # ws /\ ws'.readyState = "CONNECTING")
     => orphans' = IF ws.readyState \in {"CONNECTING", "OPEN"}
                   THEN [orphans EXCEPT ![ws.taskId] = @ + 1]
                   ELSE orphans]_vars

\* a connection for T2 was opened while T1's socket was connecting or open:
\* T1's socket is closing and T2's is the one connecting
C33_Witness ==
  /\ ws = [taskId |-> "T2", readyState |-> "CONNECTING"]
  /\ orphans["T1"] > 0


\* C34: a manual open of the active segment is possible whenever the overlay
\* surface is loaded and no overlay is visible, whether or not the segment's
\* id is in trigger memory; and a manual open of a segment whose id is in
\* trigger memory shows the overlay and leaves trigger memory as it was.
C34_ManualReopen ==
  /\ []((/\ overlayContainer
          /\ activeSegment # NoSegment
          /\ ~overlayVisible) => ENABLED ManualOpen)
  /\ [][lastProbe'.result = "reopen"
          => /\ ~overlayVisible
             /\ overlayVisible'
             /\ SegKey(activeSegment) \in openedSegmentIds
             /\ openedSegmentIds' = openedSegmentIds]_vars

C34_Witness ==
  /\ lastProbe.result = "reopen"
  /\ overlayVisible
  /\ SegKey(activeSegment) \in openedSegmentIds
  /\ autoOpens[SegKey(activeSegment)] = 1

\* C35: with two authorized requests in flight, a refresh attempt that was
\* sent with a refresh token the other call's refresh has since replaced
\* does not, whatever its outcome, clear the Session the other call stored:
\* the tokens and the user stay set.
C35_RotatedRefreshKeepsSession ==
  [][\A c \in TwoCalls :
       (/\ call[c].pc = "refresh"
        /\ call[c].sent # refreshToken
        /\ refreshToken # 0
        /\ call'[c].pc # "refresh")
       => /\ accessToken' # 0
          /\ refreshToken' # 0
          /\ user' # NoUser]_vars

\* C36: once the Panel shows its current task T as completed, the delivery
\* of a video current broadcast for the same task T does not put the status
\* badge back to processing.
C36_CompletedStaysCompleted ==
  [][(/\ panelPc = "ready"
      /\ panel.statusBadge = "completed"
      /\ bus # << >>
      /\ Head(bus).channel = "video"
      /\ Head(bus).type = "current"
      /\ Head(bus).taskId = panel.currentTaskId
      /\ bus' = Tail(bus))
     => panel'.statusBadge # "processing"]_vars

\* C37: while the Panel has a signed-in user, every broadcast the
\* Coordinator sends reaches the Panel's listener: it is queued for
\* delivery in the step that sends it.
C37_SignedInPanelHearsBroadcasts ==
  [][LET sent == SelectSeq(emitted', LAMBDA m : m.channel # "reply")
     IN  (panel.user # NoUser /\ sent # << >>)
         => /\ Len(bus') = Len(bus) + Len(sent)
            /\ \A i \in 1 .. Len(sent) :
                 bus'[Len(bus) + i].channel = sent[i].channel]_vars

\* C38: after a navigation that finishes while init() is awaiting a bus
\* reply, unless another navigation follows, the Page Agent eventually has
\* its time-update listeners bound to the video element and holds the task
\* of the page's URL.
C38_NavigationRebinds ==
  \A n \in 1 .. MaxNav :
    (Nav.navs = n /\ Nav.navAt \in BusAwaits)
      ~> (\/ Nav.navs # n
          \/ videoBound /\ Nav.currentTaskId = TaskOf(Nav.location))

\* C39: in every reachable Page Agent state in which the overlay is visible
\* the video is paused.
C39_OverlayMeansPaused == overlayVisible => paused

\* C40: a question whose latest answer was submitted successfully (the
\* reply was { ok: true, data }) has all its options disabled, so it cannot
\* be answered again from the overlay.
C40_AnsweredStaysDisabled ==
  \A q \in Quizzes : quiz[q].reply = "data" => quiz[q].disabled
====
